---- MODULE Spec2Model ----
(***************************************************************************)
(* A model of the SystemJS deobfuscator script (src/unnamed/part_000).     *)
(*                                                                         *)
(* Text is a sequence of one-character strings, so an offset of the model  *)
(* is an offset of the JavaScript string: start/end are 0-based, end is    *)
(* exclusive, exactly as the parser reports them.  The parser and the      *)
(* evaluation of the built expression are library code; both are modelled  *)
(* for the subset of JavaScript the inputs of the model are written in.    *)
(***************************************************************************)
EXTENDS Integers, Sequences, FiniteSets, TLC

\* F applied to the value v: v is worked out once, however often F refers to it
Bind(v, F(_)) == CASE v = v -> F(v)

\* A definition that names its steps in a LET and ends in
\* `CASE Len(<<a, b>>) = 2 -> e` has the value of e; the guard, which is true,
\* has the steps a and b worked out one after the other before e is, so that
\* the evaluation of a long chain of steps stays shallow.

(***************************************************************************)
(* Characters and strings                                                  *)
(***************************************************************************)
LowerSeq == <<"a", "b", "c", "d", "e", "f", "g", "h", "i", "j", "k", "l", "m", "n", "o", "p", "q", "r", "s", "t", "u", "v", "w", "x", "y", "z">>
UpperSeq == <<"A", "B", "C", "D", "E", "F", "G", "H", "I", "J", "K", "L", "M", "N", "O", "P", "Q", "R", "S", "T", "U", "V", "W", "X", "Y", "Z">>
DigitSeq == <<"0", "1", "2", "3", "4", "5", "6", "7", "8", "9">>

Range(s) == {s[i] : i \in 1..Len(s)}
Lower == Range(LowerSeq)
Upper == Range(UpperSeq)
Digit == Range(DigitSeq)
Letter == Lower \cup Upper
\* \w of a JavaScript regular expression
WordChar == Letter \cup Digit \cup {"_"}
\* the characters a string of the model cannot hold as themselves, under the
\* escapes that write them: U+0000, U+0008 and U+000B
NUL == "\\0"
BS == "\\b"
VT == "\\v"
\* \s of a JavaScript regular expression, as far as a text of the model holds it
SpaceChar == {" ", "\n", "\t", "\r", "\f", VT}
LineTerminator == {"\n", "\r"}

IndexIn(s, c) == CHOOSE i \in 1..Len(s) : s[i] = c
DigitVal(c) == IndexIn(DigitSeq, c) - 1
\* String.prototype.toUpperCase on one character
ToUpper(c) == IF c \in Lower THEN UpperSeq[IndexIn(LowerSeq, c)] ELSE c

HexSeq == <<"a", "b", "c", "d", "e", "f">>
HexUpperSeq == <<"A", "B", "C", "D", "E", "F">>
\* the value of a digit of a radix up to 16, or 16 for any other character
RadixDigit(c) ==
    IF c \in Digit THEN DigitVal(c)
    ELSE IF c \in Range(HexSeq) THEN 9 + IndexIn(HexSeq, c)
    ELSE IF c \in Range(HexUpperSeq) THEN 9 + IndexIn(HexUpperSeq, c)
    ELSE 16

\* the characters from the space to the underscore, in the order of their code units
AsciiSeq ==
    <<" ", "!", "\"", "#", "$", "%", "&", "'", "(", ")", "*", "+", ",", "-", ".", "/",
      "0", "1", "2", "3", "4", "5", "6", "7", "8", "9", ":", ";", "<", "=", ">", "?", "@",
      "A", "B", "C", "D", "E", "F", "G", "H", "I", "J", "K", "L", "M", "N", "O", "P", "Q", "R", "S", "T", "U", "V", "W", "X", "Y", "Z",
      "[", "\\", "]", "^", "_">>
\* U+0060, the grave accent, under the escape that writes it
GRAVE == "\\x60"
\* and those from the grave accent to the tilde
AsciiHighSeq ==
    <<GRAVE, "a", "b", "c", "d", "e", "f", "g", "h", "i", "j", "k", "l", "m", "n", "o", "p", "q", "r", "s", "t", "u", "v", "w", "x", "y", "z",
      "{", "|", "}", "~">>
\* the control characters U+0000 to U+001F, in the order of their code units:
\* each is held as itself where a string can hold it, and under an escape
\* that writes it otherwise
ControlSeq ==
    <<NUL, "\\x01", "\\x02", "\\x03", "\\x04", "\\x05", "\\x06", "\\x07", BS, "\t", "\n", VT, "\f", "\r", "\\x0e", "\\x0f",
      "\\x10", "\\x11", "\\x12", "\\x13", "\\x14", "\\x15", "\\x16", "\\x17", "\\x18", "\\x19", "\\x1a", "\\x1b", "\\x1c", "\\x1d", "\\x1e", "\\x1f">>
\* U+007F
DEL == "\\x7f"
\* the characters a text of the model holds: the code units 0 to 127
KnownChars == Range(ControlSeq) \cup Range(AsciiSeq) \cup Range(AsciiHighSeq) \cup {DEL}
\* the code unit of a character
CodeOf(c) ==
    CASE c \in Range(ControlSeq) -> IndexIn(ControlSeq, c) - 1
      [] c \in Range(AsciiSeq) -> 31 + IndexIn(AsciiSeq, c)
      [] c \in Range(AsciiHighSeq) -> 95 + IndexIn(AsciiHighSeq, c)
      [] c = DEL -> 127
\* whether a text of the model can hold the character of a code unit
HasChar(code) == code \in 0..127
\* String.fromCharCode
CharOf(code) ==
    CASE code < 32 -> ControlSeq[code + 1]
      [] code >= 32 /\ code < 96 -> AsciiSeq[code - 31]
      [] code >= 96 /\ code < 127 -> AsciiHighSeq[code - 95]
      [] code = 127 -> DEL
Min(a, b) == IF a < b THEN a ELSE b
Max(a, b) == IF a > b THEN a ELSE b
Clamp(n, len) == Max(0, Min(n, len))

\* String.prototype.substring(start, end): both clamped to [0, length], swapped
\* when start > end.
Substring(s, start, end) ==
    LET a == Clamp(start, Len(s))
        b == Clamp(end, Len(s))
    IN  SubSeq(s, Min(a, b) + 1, Max(a, b))

\* String.prototype.substring(start)
SubstringFrom(s, start) == Substring(s, start, Len(s))

\* String.prototype.startsWith
StartsWith(s, p) == Len(s) >= Len(p) /\ SubSeq(s, 1, Len(p)) = p

RECURSIVE Flatten(_)
\* Array.prototype.join('') of a list of strings
Flatten(ss) == IF ss = <<>> THEN <<>> ELSE Head(ss) \o Flatten(Tail(ss))

RECURSIVE Join(_, _)
\* Array.prototype.join(sep)
Join(ss, sep) ==
    IF ss = <<>> THEN <<>>
    ELSE IF Len(ss) = 1 THEN ss[1]
    ELSE ss[1] \o sep \o Join(Tail(ss), sep)

RECURSIVE NatChars(_)
\* String(n) of a non-negative integer
NatChars(n) == IF n < 10 THEN <<DigitSeq[n + 1]>> ELSE NatChars(n \div 10) \o <<DigitSeq[(n % 10) + 1]>>

K_var == <<"v", "a", "r">>
K_function == <<"f", "u", "n", "c", "t", "i", "o", "n">>
K_if == <<"i", "f">>
K_for == <<"f", "o", "r">>
K_of == <<"o", "f">>
K_switch == <<"s", "w", "i", "t", "c", "h">>
K_case == <<"c", "a", "s", "e">>
K_default == <<"d", "e", "f", "a", "u", "l", "t">>
K_break == <<"b", "r", "e", "a", "k">>
K_continue == <<"c", "o", "n", "t", "i", "n", "u", "e">>
K_return == <<"r", "e", "t", "u", "r", "n">>
K_else == <<"e", "l", "s", "e">>
K_null == <<"n", "u", "l", "l">>
K_this == <<"t", "h", "i", "s">>
K_true == <<"t", "r", "u", "e">>
K_false == <<"f", "a", "l", "s", "e">>
K_System == <<"S", "y", "s", "t", "e", "m">>
K_register == <<"r", "e", "g", "i", "s", "t", "e", "r">>
K_Math == <<"M", "a", "t", "h">>
K_MathDot == <<"M", "a", "t", "h", ".">>

(***************************************************************************)
(* The operations of the parser, of the engine that evaluates the built    *)
(* expression and of the two passes that use both.  Each one is applied    *)
(* through Native, which is defined after them, so that the operations can *)
(* use one another in any order; the operation X is defined as XOf.        *)
(***************************************************************************)
RECURSIVE Native(_, _)
Evaluate(node) == Native("Evaluate", <<node>>)
JsEval(expression) == Native("JsEval", <<expression>>)
Add(x, y) == Native("Add", <<x, y>>)
Multiply(x, y) == Native("Multiply", <<x, y>>)
Divide(x, y) == Native("Divide", <<x, y>>)
Remainder(x, y) == Native("Remainder", <<x, y>>)
Log(x) == Native("Log", <<x>>)
NumberToString(x) == Native("NumberToString", <<x>>)
StringToNumber(str) == Native("StringToNumber", <<str>>)
Sqrt(x) == Native("Sqrt", <<x>>)
Order(x, y) == Native("Order", <<x, y>>)
Floor(x) == Native("Floor", <<x>>)
Ceil(x) == Native("Ceil", <<x>>)
Trunc(x) == Native("Trunc", <<x>>)
RoundHalfUp(x) == Native("RoundHalfUp", <<x>>)
FromDecimal(neg, c, p) == Native("FromDecimal", <<neg, c, p>>)
BigPow(a, n) == Native("BigPow", <<a, n>>)
LiteralValue(raw) == Native("LiteralValue", <<raw>>)
Tokenize(text) == Native("Tokenize", <<text>>)
Parse(text) == Native("Parse", <<text>>)
ParseStmt(t, i, ctx) == Native("ParseStmt", <<t, i, ctx>>)
ParseAssign(t, i) == Native("ParseAssign", <<t, i>>)
evaluateConditionExpression(node, scope) == Native("evaluateConditionExpression", <<node, scope>>)
reorderSwitchCases(switchNode, arrayOrder, originalContent) == Native("reorderSwitchCases", <<switchNode, arrayOrder, originalContent>>)

(***************************************************************************)
(* The lexer of the parser: words, numeric literals, string literals with  *)
(* their escapes, punctuators; white space and comments are skipped.  A    *)
(* token records its offsets, 0-based, and whether a line terminator       *)
(* stands between it and the token before.  The lexer ends at the first    *)
(* token of kind "bad", a lexical error, and at the first of kind          *)
(* "unmodelled", a lexeme of the language that is outside the subset the   *)
(* model parses: a template, a regular expression, a private name, a       *)
(* BigInt or a literal with separators, a character beyond U+007F, and the *)
(* punctuators  ...  =>  ?.  ??  ??=  &&=  ||=  .                          *)
(***************************************************************************)
IsIdStart(c) == c \in Letter \cup {"_", "$"}
IsIdChar(c) == c \in WordChar \cup {"$"}
OctalDigit == {"0", "1", "2", "3", "4", "5", "6", "7"}
BinaryDigit == {"0", "1"}
HexDigit == Digit \cup Range(HexSeq) \cup Range(HexUpperSeq)

\* the first index from i on whose character is not in class (Len + 1 if none)
RunEnd(text, i, class) ==
    CHOOSE j \in i..(Len(text) + 1) :
        /\ j = Len(text) + 1 \/ text[j] \notin class
        /\ \A k \in i..(j - 1) : text[k] \in class

WordEnd(text, i) == RunEnd(text, i, WordChar \cup {"$"})

RECURSIVE RadixValue(_, _)
\* the number a run of digits writes in a radix
RadixValue(ds, radix) ==
    IF ds = <<>> THEN 0
    ELSE radix * RadixValue(SubSeq(ds, 1, Len(ds) - 1), radix) + RadixDigit(ds[Len(ds)])

DigitsValue(ds) == RadixValue(ds, 10)

\* whether the character at index i of the text is in class
At(text, i, class) == i <= Len(text) /\ text[i] \in class

\* whether the characters p stand at index i of the text
MatchAt(text, i, p) == i + Len(p) - 1 <= Len(text) /\ SubSeq(text, i, i + Len(p) - 1) = p

\* the digits a literal of a radix is written with
DigitsOfRadix(radix) ==
    CASE radix = 16 -> HexDigit [] radix = 8 -> OctalDigit [] radix = 2 -> BinaryDigit

\* the radix the prefix at i announces: 0x, 0o or 0b, in either case; 0 for none
RadixAt(text, i) ==
    IF ~(text[i] = "0" /\ i < Len(text)) THEN 0
    ELSE CASE text[i + 1] \in {"x", "X"} -> 16
           [] text[i + 1] \in {"o", "O"} -> 8
           [] text[i + 1] \in {"b", "B"} -> 2
           [] OTHER -> 0

\* a literal with a leading zero before another digit: octal when all its
\* digits are, decimal otherwise, and an error in strict code
IsLegacyNumber(ds) == Len(ds) > 1 /\ ds[1] = "0" /\ ds[2] \in Digit
IsLegacyOctal(ds) == IsLegacyNumber(ds) /\ \A k \in 1..Len(ds) : ds[k] \in OctalDigit

\* the index after the exponent part that starts at i with e or E, or 0 when
\* no digit follows the e and its sign
ExponentEnd(text, i) ==
    Bind(IF At(text, i + 1, {"+", "-"}) THEN i + 2 ELSE i + 1, LAMBDA from :
        IF At(text, from, Digit) THEN RunEnd(text, from, Digit) ELSE 0)

\* the index after the decimal literal that starts at i, with a digit or with
\* a point before a digit; 0 for an exponent without digits.  A legacy octal
\* literal has neither a fraction nor an exponent.
DecimalEnd(text, i) ==
    Bind(RunEnd(text, i, Digit), LAMBDA whole :
    IF IsLegacyOctal(SubSeq(text, i, whole - 1)) THEN whole
    ELSE Bind(IF At(text, whole, {"."}) THEN RunEnd(text, whole + 1, Digit) ELSE whole, LAMBDA fraction :
         IF At(text, fraction, {"e", "E"}) THEN ExponentEnd(text, fraction) ELSE fraction))

\* the index of the line terminator ending a // comment (Len + 1 if none)
LineEnd(text, i) ==
    CHOOSE j \in i..(Len(text) + 1) :
        /\ j = Len(text) + 1 \/ text[j] \in LineTerminator
        /\ \A k \in i..(j - 1) : text[k] \notin LineTerminator

\* the index after a /* comment that starts at i, or 0 when it is not closed
CommentEnd(text, i) ==
    IF \E j \in (i + 2)..(Len(text) - 1) : text[j] = "*" /\ text[j + 1] = "/"
    THEN 2 + CHOOSE j \in (i + 2)..(Len(text) - 1) :
                 /\ text[j] = "*" /\ text[j + 1] = "/"
                 /\ \A k \in (i + 2)..(j - 1) : ~(text[k] = "*" /\ text[k + 1] = "/")
    ELSE 0

\* An escape sequence of a string literal: the characters it stands for,
\* the index after it, and whether it is one strict code rejects.  An escape
\* of a code unit beyond U+007F is well formed and outside the model.
Escaped(value, next, legacy) ==
    [ok |-> TRUE, unmodelled |-> FALSE, value |-> value, next |-> next, legacy |-> legacy]
BadEscape == [ok |-> FALSE, unmodelled |-> FALSE, value |-> <<>>, next |-> 0, legacy |-> FALSE]
UnmodelledEscape == [ok |-> FALSE, unmodelled |-> TRUE, value |-> <<>>, next |-> 0, legacy |-> FALSE]
CodeEscape(code, next, legacy) ==
    IF HasChar(code) THEN Escaped(<<CharOf(code)>>, next, legacy) ELSE UnmodelledEscape

SingleEscape(c) ==
    CASE c = "n" -> "\n" [] c = "t" -> "\t" [] c = "r" -> "\r"
      [] c = "f" -> "\f" [] c = "b" -> BS [] c = "v" -> VT

HexRun(text, i, n) ==
    i + n - 1 <= Len(text) /\ \A k \in i..(i + n - 1) : text[k] \in HexDigit

\* the number of digits of the octal escape whose first digit is at i
OctalLen(text, i) ==
    IF i + 1 <= Len(text) /\ text[i + 1] \in OctalDigit
    THEN IF text[i] \in {"0", "1", "2", "3"} /\ i + 2 <= Len(text) /\ text[i + 2] \in OctalDigit
         THEN 3 ELSE 2
    ELSE 1

\* the code point \u{...} names, its digits ds without their leading zeros:
\* at most 10FFFF
CodePointEscape(ds, next) ==
    Bind(SubSeq(ds, RunEnd(ds, 1, {"0"}), Len(ds)), LAMBDA significant :
        IF Len(significant) > 6 THEN BadEscape
        ELSE IF RadixValue(significant, 16) > 1114111 THEN BadEscape
        ELSE CodeEscape(RadixValue(significant, 16), next, FALSE))

\* the escape whose backslash is at i, with a character after it
Escape(text, i) ==
    LET c == text[i + 1]
    IN  IF c \in {"n", "t", "r", "f", "b", "v"} THEN Escaped(<<SingleEscape(c)>>, i + 2, FALSE)
        ELSE IF c = "\n" THEN Escaped(<<>>, i + 2, FALSE)
        ELSE IF c = "\r"
            THEN Escaped(<<>>, IF i + 2 <= Len(text) /\ text[i + 2] = "\n" THEN i + 3 ELSE i + 2, FALSE)
        ELSE IF c = "x" THEN
            IF HexRun(text, i + 2, 2)
            THEN CodeEscape(RadixValue(SubSeq(text, i + 2, i + 3), 16), i + 4, FALSE)
            ELSE BadEscape
        ELSE IF c = "u" THEN
            IF HexRun(text, i + 2, 4)
            THEN CodeEscape(RadixValue(SubSeq(text, i + 2, i + 5), 16), i + 6, FALSE)
            ELSE IF i + 2 <= Len(text) /\ text[i + 2] = "{"
                THEN Bind(RunEnd(text, i + 3, HexDigit), LAMBDA j :
                     IF j > i + 3 /\ j <= Len(text) /\ text[j] = "}"
                     THEN CodePointEscape(SubSeq(text, i + 3, j - 1), j + 1)
                     ELSE BadEscape)
            ELSE BadEscape
        ELSE IF c \in OctalDigit THEN
            IF c = "0" /\ ~(i + 2 <= Len(text) /\ text[i + 2] \in Digit)
            THEN Escaped(<<NUL>>, i + 2, FALSE)
            ELSE CodeEscape(RadixValue(SubSeq(text, i + 1, i + OctalLen(text, i + 1)), 8),
                            i + 1 + OctalLen(text, i + 1), TRUE)
        ELSE IF c \in {"8", "9"} THEN Escaped(<<c>>, i + 2, TRUE)
        ELSE IF c \notin KnownChars THEN UnmodelledEscape
        ELSE Escaped(<<c>>, i + 2, FALSE)

\* One step of scanning a string literal's contents: st.i is the index read,
\* st.value the characters so far, st.close the index after the closing quote
\* (0 while scanning, -1 when the literal is unterminated or an escape is bad,
\* -2 when the literal holds a character the model has none for).
StrStep(text, q, st) ==
    IF st.close # 0 THEN st
    ELSE IF st.i > Len(text) \/ text[st.i] \in LineTerminator THEN [st EXCEPT !.close = -1]
    ELSE IF text[st.i] = q THEN [st EXCEPT !.close = st.i + 1]
    ELSE IF text[st.i] \notin KnownChars THEN [st EXCEPT !.close = -2]
    ELSE IF text[st.i] = "\\" THEN
        IF st.i + 1 > Len(text) THEN [st EXCEPT !.close = -1]
        ELSE Bind(Escape(text, st.i), LAMBDA e :
             IF ~e.ok THEN [st EXCEPT !.close = IF e.unmodelled THEN -2 ELSE -1]
             ELSE [i |-> e.next, value |-> st.value \o e.value, close |-> 0,
                   legacy |-> st.legacy \/ e.legacy])
    ELSE [st EXCEPT !.i = st.i + 1, !.value = Append(st.value, text[st.i])]

RECURSIVE StrIter(_, _, _, _)
\* at most k steps of StrStep, an eighth of them at a time so that the
\* evaluation stays shallow
StrIter(text, q, st, k) ==
    CASE k <= 0 \/ st.close # 0 -> st
      [] k = 1 /\ st.close = 0 -> StrStep(text, q, st)
      [] OTHER ->
          LET q8 == (k + 7) \div 8
              s1 == StrIter(text, q, st, q8)
              s2 == StrIter(text, q, s1, Min(q8, k - q8))
              s3 == StrIter(text, q, s2, Min(q8, k - 2 * q8))
              s4 == StrIter(text, q, s3, Min(q8, k - 3 * q8))
              s5 == StrIter(text, q, s4, Min(q8, k - 4 * q8))
              s6 == StrIter(text, q, s5, Min(q8, k - 5 * q8))
              s7 == StrIter(text, q, s6, Min(q8, k - 6 * q8))
              s8 == StrIter(text, q, s7, Min(q8, k - 7 * q8))
          IN  CASE Len(<<s1, s2, s3, s4, s5, s6, s7>>) = 7 -> s8

StrScan(text, i, q) ==
    StrIter(text, q, [i |-> i, value |-> <<>>, close |-> 0, legacy |-> FALSE], Len(text) + 2 - i)

\* the punctuators by their length; the lexer takes the longest at an index
Punct4 == {<<">", ">", ">", "=">>}
Punct3 ==
    {<<"=", "=", "=">>, <<"!", "=", "=">>, <<"*", "*", "=">>, <<"<", "<", "=">>, <<">", ">", "=">>,
     <<">", ">", ">">>, <<".", ".", ".">>, <<"&", "&", "=">>, <<"|", "|", "=">>, <<"?", "?", "=">>}
Punct2 ==
    {<<"=", "=">>, <<"!", "=">>, <<">", "=">>, <<"<", "=">>, <<"&", "&">>, <<"|", "|">>,
     <<"+", "+">>, <<"-", "-">>, <<"+", "=">>, <<"-", "=">>, <<"*", "=">>, <<"/", "=">>,
     <<"%", "=">>, <<"&", "=">>, <<"|", "=">>, <<"^", "=">>, <<"<", "<">>, <<">", ">">>,
     <<"*", "*">>, <<"=", ">">>, <<"?", "?">>, <<"?", ".">>}
Punct1 ==
    {"(", ")", "{", "}", "[", "]", ";", ",", ".", ":", "=", ">", "<", "+", "-", "*", "/", "%",
     "!", "&", "|", "^", "~", "?"}
\* the punctuators of the language the parser of the subset does not parse
UnmodelledPunct ==
    {<<".", ".", ".">>, <<"=", ">">>, <<"?", ".">>, <<"?", "?">>, <<"?", "?", "=">>,
     <<"&", "&", "=">>, <<"|", "|", "=">>}

\* the punctuator that starts at index i with a character of Punct1, the
\* longest there is; ?. is no punctuator before a digit
PunctAt(text, i) ==
    CASE i + 3 <= Len(text) /\ SubSeq(text, i, i + 3) \in Punct4 -> SubSeq(text, i, i + 3)
      [] i + 2 <= Len(text) /\ SubSeq(text, i, i + 2) \in Punct3 -> SubSeq(text, i, i + 2)
      [] i + 1 <= Len(text) /\ SubSeq(text, i, i + 1) \in Punct2
         /\ ~(SubSeq(text, i, i + 1) = <<"?", ".">> /\ At(text, i + 2, Digit)) -> SubSeq(text, i, i + 1)
      [] OTHER -> <<text[i]>>

\* a token: n is 1 for a literal strict code rejects, a number with a leading
\* zero or a string with an octal escape; value is the Number of a numeric
\* literal, which NumberToken fills in
Tok(k, v, n, i, j, nl) ==
    [k |-> k, v |-> v, n |-> n, value |-> <<>>, start |-> i - 1, end |-> j - 1, nl |-> nl]

\* the token of the literal that starts at i and ends before j: no name and
\* no digit may follow a literal; the suffix n makes a BigInt and an
\* underscore separates digits, both outside the model
NumberToken(text, i, j, nl) ==
    Bind(SubSeq(text, i, j - 1), LAMBDA raw :
    CASE At(text, j, {"n", "_", "\\"}) \/ (j <= Len(text) /\ text[j] \notin KnownChars) ->
            Tok("unmodelled", raw, 0, i, j, nl)
      [] At(text, j, Letter \cup {"$"} \cup Digit) -> Tok("bad", raw, 0, i, j, nl)
      [] OTHER -> [Tok("num", raw, IF IsLegacyNumber(raw) THEN 1 ELSE 0, i, j, nl)
                      EXCEPT !.value = LiteralValue(raw)])

\* the token of the numeric literal that starts at i
NumberScan(text, i, nl) ==
    IF RadixAt(text, i) # 0 THEN
        Bind(RunEnd(text, i + 2, DigitsOfRadix(RadixAt(text, i))), LAMBDA j :
            IF j = i + 2
            THEN IF At(text, j, {"_"}) THEN Tok("unmodelled", SubSeq(text, i, j - 1), 0, i, j, nl)
                 ELSE Tok("bad", SubSeq(text, i, j - 1), 0, i, j, nl)
            ELSE NumberToken(text, i, j, nl))
    ELSE Bind(DecimalEnd(text, i), LAMBDA j :
         IF j = 0 THEN Tok("bad", <<text[i]>>, 0, i, i + 1, nl)
         ELSE NumberToken(text, i, j, nl))

\* whether i is the start of an HTML-like comment, which a script may hold:
\* <!-- anywhere, --> where only white space and comments stand before it on
\* its line
HtmlComment(text, st) ==
    \/ MatchAt(text, st.i, <<"<", "!", "-", "-">>)
    \/ /\ MatchAt(text, st.i, <<"-", "-", ">">>)
       /\ st.nl \/ st.toks = <<>>

\* One step of the lexer at index st.i: a character of white space or a comment
\* skipped, or one token added.  A token that is bad or unmodelled ends it.
LexStep(text, st) ==
    LET i == st.i
        c == text[i]
        Put(tok, j) == [i |-> IF tok.k \in {"bad", "unmodelled"} THEN Len(text) + 1 ELSE j,
                        toks |-> Append(st.toks, tok), nl |-> FALSE]
    IN
      IF c \in SpaceChar THEN [st EXCEPT !.i = i + 1, !.nl = st.nl \/ c \in LineTerminator]
      ELSE IF c = "/" /\ i < Len(text) /\ text[i + 1] = "/" THEN [st EXCEPT !.i = LineEnd(text, i)]
      ELSE IF c = "/" /\ i < Len(text) /\ text[i + 1] = "*" THEN
          IF CommentEnd(text, i) = 0 THEN Put(Tok("bad", <<c>>, 0, i, i + 1, st.nl), i + 1)
          ELSE [st EXCEPT !.i = CommentEnd(text, i),
                          !.nl = st.nl \/ \E k \in i..(CommentEnd(text, i) - 1) : text[k] \in LineTerminator]
      ELSE IF HtmlComment(text, st) THEN Put(Tok("unmodelled", <<c>>, 0, i, i + 1, st.nl), i + 1)
      ELSE IF IsIdStart(c) THEN
          LET j == WordEnd(text, i)
          IN  IF At(text, j, {"\\"}) \/ (j <= Len(text) /\ text[j] \notin KnownChars)
              THEN Put(Tok("unmodelled", SubSeq(text, i, j - 1), 0, i, j, st.nl), j)
              ELSE Put(Tok("word", SubSeq(text, i, j - 1), 0, i, j, st.nl), j)
      ELSE IF c \in Digit \/ (c = "." /\ At(text, i + 1, Digit)) THEN
          LET tok == NumberScan(text, i, st.nl) IN Put(tok, tok.end + 1)
      ELSE IF c \in {"\"", "'"} THEN
          LET r == StrScan(text, i + 1, c)
          IN  CASE r.close = -1 -> Put(Tok("bad", <<c>>, 0, i, i + 1, st.nl), i + 1)
                [] r.close = -2 -> Put(Tok("unmodelled", <<c>>, 0, i, i + 1, st.nl), i + 1)
                [] OTHER -> Put(Tok("str", r.value, IF r.legacy THEN 1 ELSE 0, i, r.close, st.nl), r.close)
      ELSE IF c \in Punct1 THEN
          LET p == PunctAt(text, i)
          IN  Put(Tok(IF p \in UnmodelledPunct THEN "unmodelled" ELSE "punct", p, 0, i, i + Len(p), st.nl),
                  i + Len(p))
      ELSE IF c \in {GRAVE, "#", "@", "\\"} \/ c \notin KnownChars
          THEN Put(Tok("unmodelled", <<c>>, 0, i, i + 1, st.nl), i + 1)
      ELSE Put(Tok("bad", <<c>>, 0, i, i + 1, st.nl), i + 1)

RECURSIVE LexIter(_, _, _)
\* at most k steps of LexStep, an eighth of them at a time so that the
\* evaluation stays shallow
LexIter(text, st, k) ==
    CASE k <= 0 \/ st.i > Len(text) -> st
      [] k = 1 /\ st.i <= Len(text) -> LexStep(text, st)
      [] OTHER ->
          LET q == (k + 7) \div 8
              s1 == LexIter(text, st, q)
              s2 == LexIter(text, s1, Min(q, k - q))
              s3 == LexIter(text, s2, Min(q, k - 2 * q))
              s4 == LexIter(text, s3, Min(q, k - 3 * q))
              s5 == LexIter(text, s4, Min(q, k - 4 * q))
              s6 == LexIter(text, s5, Min(q, k - 5 * q))
              s7 == LexIter(text, s6, Min(q, k - 6 * q))
              s8 == LexIter(text, s7, Min(q, k - 7 * q))
          IN  CASE Len(<<s1, s2, s3, s4, s5, s6, s7>>) = 7 -> s8

TokenizeOf(text) == LexIter(text, [i |-> 1, toks |-> <<>>, nl |-> FALSE], Len(text)).toks

(***************************************************************************)
(* AST nodes, with the parser's field names and field order.  Null stands  *)
(* for a null field.                                                       *)
(***************************************************************************)
Null == [type |-> "null"]

Identifier(name, s, e) == [type |-> "Identifier", start |-> s, end |-> e, name |-> name]
NumericLiteral(x, s, e) == [type |-> "NumericLiteral", start |-> s, end |-> e, value |-> x]
StringLiteral(v, s, e) == [type |-> "StringLiteral", start |-> s, end |-> e, value |-> v]
BooleanLiteral(b, s, e) == [type |-> "BooleanLiteral", start |-> s, end |-> e, value |-> b]
BinaryNode(ty, l, op, r, s, e) ==
    [type |-> ty, start |-> s, end |-> e, left |-> l, operator |-> op, right |-> r]
UnaryExpression(op, arg, s, e) ==
    [type |-> "UnaryExpression", start |-> s, end |-> e, operator |-> op, prefix |-> TRUE,
     argument |-> arg]
UpdateExpression(op, prefix, arg, s, e) ==
    [type |-> "UpdateExpression", start |-> s, end |-> e, operator |-> op, prefix |-> prefix,
     argument |-> arg]
ConditionalExpression(test, cons, alt, s, e) ==
    [type |-> "ConditionalExpression", start |-> s, end |-> e, test |-> test,
     consequent |-> cons, alternate |-> alt]
SequenceExpression(exprs, s, e) ==
    [type |-> "SequenceExpression", start |-> s, end |-> e, expressions |-> exprs]
CallExpression(callee, args, s, e) ==
    [type |-> "CallExpression", start |-> s, end |-> e, callee |-> callee, arguments |-> args]
NewExpression(callee, args, s, e) ==
    [type |-> "NewExpression", start |-> s, end |-> e, callee |-> callee, arguments |-> args]
MemberExpression(obj, prop, computed, s, e) ==
    [type |-> "MemberExpression", start |-> s, end |-> e, object |-> obj,
     computed |-> computed, property |-> prop]
ArrayExpression(elems, s, e) == [type |-> "ArrayExpression", start |-> s, end |-> e, elements |-> elems]
FunctionNode(ty, id, params, body, s) ==
    [type |-> ty, start |-> s, end |-> body.end, id |-> id, params |-> params, body |-> body]
VariableDeclarator(id, init, e) ==
    [type |-> "VariableDeclarator", start |-> id.start, end |-> e, id |-> id, init |-> init]
VariableDeclaration(decls, s, e) ==
    [type |-> "VariableDeclaration", start |-> s, end |-> e, declarations |-> decls]
ExpressionStatement(expr, s, e) ==
    [type |-> "ExpressionStatement", start |-> s, end |-> e, expression |-> expr]
EmptyStatement(s, e) == [type |-> "EmptyStatement", start |-> s, end |-> e]
DebuggerStatement(s, e) == [type |-> "DebuggerStatement", start |-> s, end |-> e]
IfStatement(test, cons, alt, s) ==
    [type |-> "IfStatement", start |-> s, end |-> IF alt = Null THEN cons.end ELSE alt.end,
     test |-> test, consequent |-> cons, alternate |-> alt]
\* a for-of or a for-in statement
ForEachNode(ty, left, right, body, s) ==
    [type |-> ty, start |-> s, end |-> body.end, left |-> left, right |-> right, body |-> body]
ForOfStatement(left, right, body, s) == ForEachNode("ForOfStatement", left, right, body, s)
ForStatement(init, test, update, body, s) ==
    [type |-> "ForStatement", start |-> s, end |-> body.end, init |-> init, test |-> test,
     update |-> update, body |-> body]
WhileStatement(test, body, s) ==
    [type |-> "WhileStatement", start |-> s, end |-> body.end, test |-> test, body |-> body]
DoWhileStatement(body, test, s, e) ==
    [type |-> "DoWhileStatement", start |-> s, end |-> e, body |-> body, test |-> test]
SwitchCase(cons, test, s, e) ==
    [type |-> "SwitchCase", start |-> s, end |-> e, consequent |-> cons, test |-> test]
SwitchStatement(disc, cases, s, e) ==
    [type |-> "SwitchStatement", start |-> s, end |-> e, discriminant |-> disc, cases |-> cases]
BreakStatement(s, e) == [type |-> "BreakStatement", start |-> s, end |-> e]
ContinueStatement(s, e) == [type |-> "ContinueStatement", start |-> s, end |-> e]
ReturnStatement(arg, s, e) == [type |-> "ReturnStatement", start |-> s, end |-> e, argument |-> arg]
ThrowStatement(arg, s, e) == [type |-> "ThrowStatement", start |-> s, end |-> e, argument |-> arg]
CatchClause(param, body, s) ==
    [type |-> "CatchClause", start |-> s, end |-> body.end, param |-> param, body |-> body]
TryStatement(block, handler, finalizer, s) ==
    [type |-> "TryStatement", start |-> s,
     end |-> IF finalizer = Null THEN handler.end ELSE finalizer.end,
     block |-> block, handler |-> handler, finalizer |-> finalizer]
NullLiteral(s, e) == [type |-> "NullLiteral", start |-> s, end |-> e]
ThisExpression(s, e) == [type |-> "ThisExpression", start |-> s, end |-> e]
BlockStatement(body, s, e) == [type |-> "BlockStatement", start |-> s, end |-> e, body |-> body]
Program(body, e) == [type |-> "Program", start |-> 0, end |-> e, body |-> body]

(***************************************************************************)
(* parser.parse: a recursive-descent parser of a subset of the language.   *)
(* Every parsing operator returns [ok, unmodelled, late, node, next, from, *)
(* to]: next is the index of the first token not consumed; from and to are *)
(* the offsets the construct spans with the parentheses around it, which   *)
(* an enclosing node's span includes and the node's own span does not.     *)
(*                                                                         *)
(* A text that does not parse gives one of two answers.  Fail is a syntax  *)
(* error: it is given where no text of the language goes on as this one    *)
(* does.  Beyond, with unmodelled = TRUE, is no answer: the text leaves    *)
(* the subset, and whether it parses, and to what, the model does not      *)
(* tell.  Outside the subset are object literals, classes, templates,      *)
(* regular expressions, arrow functions, generators and async functions,   *)
(* let and const, destructuring, default and rest parameters, spread,      *)
(* array holes, labels, with, import and export, optional chaining and    *)
(* ??, and function declarations whose name is declared again in their     *)
(* block.  LateFail is the error of an assignment to a call, which the     *)
(* parser reports and the engine leaves to run time.                       *)
(*                                                                         *)
(* ctx tells whether a break and whether a continue statement is allowed   *)
(* here (a break inside a loop or a switch, a continue inside a loop,      *)
(* neither across a function), and whether the statement is one of a list  *)
(* of statements, where a function declaration may stand.                  *)
(***************************************************************************)
NoContext == [brk |-> FALSE, cont |-> FALSE, list |-> TRUE]
InSwitch(ctx) == [ctx EXCEPT !.brk = TRUE, !.list = TRUE]
InLoop == [brk |-> TRUE, cont |-> TRUE, list |-> FALSE]
InList(ctx) == [ctx EXCEPT !.list = TRUE]
InBody(ctx) == [ctx EXCEPT !.list = FALSE]
Fail == [ok |-> FALSE, unmodelled |-> FALSE, late |-> FALSE, node |-> Null, next |-> 0, from |-> 0, to |-> 0]
Beyond == [ok |-> FALSE, unmodelled |-> TRUE, late |-> FALSE, node |-> Null, next |-> 0, from |-> 0, to |-> 0]
LateFail == [ok |-> FALSE, unmodelled |-> FALSE, late |-> TRUE, node |-> Null, next |-> 0, from |-> 0, to |-> 0]
OkParen(node, next, from, to) ==
    [ok |-> TRUE, unmodelled |-> FALSE, late |-> FALSE, node |-> node, next |-> next, from |-> from, to |-> to]
Ok(node, next) == OkParen(node, next, 0, 0)
OkExpr(node, next) == OkParen(node, next, node.start, node.end)

K_while == <<"w", "h", "i", "l", "e">>
K_do == <<"d", "o">>
K_new == <<"n", "e", "w">>
K_typeof == <<"t", "y", "p", "e", "o", "f">>
K_void == <<"v", "o", "i", "d">>
K_delete == <<"d", "e", "l", "e", "t", "e">>
K_in == <<"i", "n">>
K_instanceof == <<"i", "n", "s", "t", "a", "n", "c", "e", "o", "f">>
K_try == <<"t", "r", "y">>
K_catch == <<"c", "a", "t", "c", "h">>
K_finally == <<"f", "i", "n", "a", "l", "l", "y">>
K_throw == <<"t", "h", "r", "o", "w">>
K_debugger == <<"d", "e", "b", "u", "g", "g", "e", "r">>
\* the reserved words of the language
Keywords ==
    {K_var, K_function, K_if, K_for, K_switch, K_case, K_default, K_break, K_true, K_false,
     K_continue, K_return, K_else, K_null, K_this, K_while, K_do, K_new, K_typeof, K_void,
     K_delete, K_in, K_instanceof, K_try, K_catch, K_finally, K_throw, K_debugger,
     <<"w", "i", "t", "h">>, <<"c", "l", "a", "s", "s">>, <<"c", "o", "n", "s", "t">>, <<"e", "n", "u", "m">>,
     <<"e", "x", "p", "o", "r", "t">>, <<"e", "x", "t", "e", "n", "d", "s">>, <<"i", "m", "p", "o", "r", "t">>, <<"s", "u", "p", "e", "r">>}
\* the words that are names in some places and keywords in others
Contextual == {<<"a", "s", "y", "n", "c">>, <<"l", "e", "t">>, <<"a", "w", "a", "i", "t">>, <<"y", "i", "e", "l", "d">>}

IsPunct(t, i, p) == i >= 1 /\ i <= Len(t) /\ t[i].k = "punct" /\ t[i].v = p
IsWord(t, i, w) == i >= 1 /\ i <= Len(t) /\ t[i].k = "word" /\ t[i].v = w
IsName(t, i) == i <= Len(t) /\ t[i].k = "word" /\ t[i].v \notin Keywords \cup Contextual

\* the punctuators that start no expression
NoOperandPunct ==
    {<<";">>, <<"}">>, <<":">>, <<"=">>, <<"]">>, <<")">>, <<",">>, <<"*">>, <<"%">>, <<"?">>,
     <<"=", "=">>, <<"!", "=">>, <<"=", "=", "=">>, <<"!", "=", "=">>, <<">">>, <<">", "=">>,
     <<"<", "=">>, <<"&", "&">>, <<"|", "|">>}
\* the reserved words that start a statement or a clause and no expression
NoOperandWords ==
    {K_var, K_if, K_else, K_for, K_while, K_do, K_switch, K_case, K_default, K_break,
     K_continue, K_return, K_throw, K_try, K_catch, K_finally, K_debugger, K_in, K_instanceof}
\* The token at i stands where an expression has to start and starts none.  A
\* syntax error at the end of the text, at a lexical error, at a reserved
\* word that starts no expression and at a punctuator that starts none; a
\* closing parenthesis after ( or a comma may close the parameters of an
\* arrow function.
NoOperand(t, i) ==
    IF i > Len(t) THEN Fail
    ELSE IF t[i].k = "bad" THEN Fail
    ELSE IF t[i].k = "word" /\ t[i].v \in NoOperandWords THEN Fail
    ELSE IF /\ t[i].k = "punct" /\ t[i].v \in NoOperandPunct
            /\ ~(t[i].v = <<")">> /\ (IsPunct(t, i - 1, <<"(">>) \/ IsPunct(t, i - 1, <<",">>)))
        THEN Fail
    ELSE Beyond

\* The token at i stands after a complete expression or statement where a
\* token is required that it is not.  A syntax error at the end of the text,
\* at a lexical error, at a literal, at a word other than in, and at a
\* punctuator that continues no expression.
NoContinuation(t, i) ==
    IF i > Len(t) THEN Fail
    ELSE CASE t[i].k \in {"bad", "num", "str"} -> Fail
           [] t[i].k = "word" -> IF t[i].v \in {K_in} \cup Contextual THEN Beyond ELSE Fail
           [] t[i].k = "punct" ->
                IF t[i].v \in {<<")">>, <<"]">>, <<"}">>, <<"{">>, <<";">>, <<":">>} THEN Fail ELSE Beyond
           [] OTHER -> Beyond

\* The token at i cannot stand here, and what else the language allows here
\* the model does not tell: a syntax error only at the end of the text and at
\* a lexical error.
Unsure(t, i) == IF i > Len(t) THEN Fail ELSE IF t[i].k = "bad" THEN Fail ELSE Beyond

\* the precedence of a binary operator, loosest first; 0 for any other token
Precedence(op) ==
    CASE op = <<"|", "|">> -> 1
      [] op = <<"&", "&">> -> 2
      [] op = <<"|">> -> 3
      [] op = <<"^">> -> 4
      [] op = <<"&">> -> 5
      [] op \in {<<"=", "=">>, <<"!", "=">>, <<"=", "=", "=">>, <<"!", "=", "=">>} -> 6
      [] op \in {<<">">>, <<"<">>, <<">", "=">>, <<"<", "=">>, K_instanceof, K_in} -> 7
      [] op \in {<<"<", "<">>, <<">", ">">>, <<">", ">", ">">>} -> 8
      [] op \in {<<"+">>, <<"-">>} -> 9
      [] op \in {<<"*">>, <<"/">>, <<"%">>} -> 10
      [] op = <<"*", "*">> -> 11
      [] OTHER -> 0
\* the operators of a UnaryExpression, and those of an UpdateExpression
PrefixOps == {<<"-">>, <<"!">>, <<"+">>, <<"~">>, K_typeof, K_void, K_delete}
UpdateOps == {<<"+", "+">>, <<"-", "-">>}
\* the operators of an AssignmentExpression
AssignOps ==
    {<<"=">>, <<"+", "=">>, <<"-", "=">>, <<"*", "=">>, <<"/", "=">>, <<"%", "=">>, <<"*", "*", "=">>,
     <<"<", "<", "=">>, <<">", ">", "=">>, <<">", ">", ">", "=">>, <<"&", "=">>, <<"|", "=">>, <<"^", "=">>}

\* whether the token at i is one of the operators ops, punctuators or words
IsOp(t, i, ops) == i <= Len(t) /\ t[i].k \in {"punct", "word"} /\ t[i].v \in ops

\* The answer for an expression that stands where a value is assigned: none
\* for the expression itself when it is a name or a member, which are the
\* targets of the subset; Beyond for a pattern; LateFail for a call.
Target(node, pattern) ==
    CASE node.type \in {"Identifier", "MemberExpression"} -> Ok(node, 0)
      [] node.type = "ArrayExpression" /\ pattern -> Beyond
      [] node.type \in {"CallExpression", "NewExpression"} -> LateFail
      [] OTHER -> Fail

RECURSIVE ParsePrimary(_, _), ParseUnary(_, _), ParseBin(_, _, _),
          ParseExpression(_, _), ParseList(_, _, _, _), ParseFunction(_, _, _),
          ParseStmts(_, _, _, _), ParseBlock(_, _, _)
RECURSIVE ParseSequence(_, _, _, _), ParseBinRest(_, _, _, _), ParsePostfix(_, _, _)
RECURSIVE ParseMembers(_, _, _), ParseNew(_, _), ParseParams(_, _, _)
RECURSIVE ParseCases(_, _, _, _), ParseDeclarators(_, _, _)

\* a comma-separated list of expressions up to the closing punctuator, which
\* may follow a comma
ParseList(t, i, close, acc) ==
    CASE IsPunct(t, i, close) -> Ok(acc, i + 1)
      [] IsPunct(t, i, <<",">>) -> Beyond
      [] OTHER ->
            Bind(ParseAssign(t, i), LAMBDA e :
            CASE ~e.ok -> e
              [] e.ok /\ IsPunct(t, e.next, <<",">>) ->
                    ParseList(t, e.next + 1, close, Append(acc, e.node))
              [] e.ok /\ ~IsPunct(t, e.next, <<",">>) /\ IsPunct(t, e.next, close) ->
                    Ok(Append(acc, e.node), e.next + 1)
              [] OTHER -> NoContinuation(t, e.next))

\* a parameter list of names, after the opening parenthesis
ParseParams(t, i, acc) ==
    IF IsPunct(t, i, <<")">>) THEN Ok(acc, i + 1)
    ELSE IF ~IsName(t, i) THEN Unsure(t, i)
    ELSE IF IsPunct(t, i + 1, <<",">>)
        THEN ParseParams(t, i + 2, Append(acc, Identifier(t[i].v, t[i].start, t[i].end)))
    ELSE IF IsPunct(t, i + 1, <<")">>)
        THEN Ok(Append(acc, Identifier(t[i].v, t[i].start, t[i].end)), i + 2)
    ELSE Unsure(t, i + 1)

\* the index of the parenthesis that opens the parameters of the function
\* whose keyword is the token at i: after the name, when there is one
FunctionOpen(t, i) == IF IsName(t, i + 1) THEN i + 2 ELSE i + 1

\* function [id] (params) { body }, the token at i being `function`; a
\* declaration has a name
ParseFunction(t, i, ty) ==
    CASE ~IsPunct(t, FunctionOpen(t, i), <<"(">>) -> Unsure(t, FunctionOpen(t, i))
      [] IsPunct(t, i + 1, <<"(">>) /\ ty = "FunctionDeclaration" -> Fail
      [] OTHER ->
            Bind(ParseParams(t, FunctionOpen(t, i) + 1, <<>>), LAMBDA ps :
            CASE ~ps.ok -> ps
              [] OTHER ->
                    Bind(ParseBlock(t, ps.next, NoContext), LAMBDA b :
                    IF ~b.ok THEN b
                    ELSE OkExpr(FunctionNode(ty, IF IsName(t, i + 1)
                                                 THEN Identifier(t[i + 1].v, t[i + 1].start, t[i + 1].end)
                                                 ELSE Null,
                                             ps.node, b.node, t[i].start), b.next)))

\* the member accesses after the callee p of a new expression
ParseMembers(t, p, i) ==
    CASE IsPunct(t, i, <<".">>) /\ i + 1 <= Len(t) /\ t[i + 1].k = "word" ->
            ParseMembers(t, OkExpr(MemberExpression(p.node, Identifier(t[i + 1].v, t[i + 1].start, t[i + 1].end),
                                                    FALSE, p.from, t[i + 1].end), i + 2), i + 2)
      [] IsPunct(t, i, <<".">>) /\ ~(i + 1 <= Len(t) /\ t[i + 1].k = "word") -> Unsure(t, i + 1)
      [] IsPunct(t, i, <<"[">>) ->
            Bind(ParseExpression(t, i + 1), LAMBDA e :
            IF ~e.ok THEN e
            ELSE IF ~IsPunct(t, e.next, <<"]">>) THEN NoContinuation(t, e.next)
            ELSE ParseMembers(t, OkExpr(MemberExpression(p.node, e.node, TRUE, p.from, t[e.next].end),
                                        e.next + 1), e.next + 1))
      [] OTHER -> p

\* new callee [(arguments)], the token at i being `new`
ParseNew(t, i) ==
    IF IsPunct(t, i + 1, <<".">>) THEN Beyond
    ELSE Bind(IF IsWord(t, i + 1, K_new) THEN ParseNew(t, i + 1) ELSE ParsePrimary(t, i + 1), LAMBDA p :
         IF ~p.ok THEN p
         ELSE Bind(ParseMembers(t, p, p.next), LAMBDA callee :
              IF ~callee.ok THEN callee
              ELSE IF ~IsPunct(t, callee.next, <<"(">>)
                  THEN OkExpr(NewExpression(callee.node, <<>>, t[i].start, callee.to), callee.next)
              ELSE Bind(ParseList(t, callee.next + 1, <<")">>, <<>>), LAMBDA l :
                   IF ~l.ok THEN l
                   ELSE OkExpr(NewExpression(callee.node, l.node, t[i].start, t[l.next - 1].end),
                               l.next))))

ParsePrimary(t, i) ==
    CASE i > Len(t) -> Fail
      [] i <= Len(t) /\ t[i].k = "num" ->
            OkExpr(NumericLiteral(t[i].value, t[i].start, t[i].end), i + 1)
      [] i <= Len(t) /\ t[i].k = "str" ->
            OkExpr(StringLiteral(t[i].v, t[i].start, t[i].end), i + 1)
      [] IsWord(t, i, K_true) -> OkExpr(BooleanLiteral(TRUE, t[i].start, t[i].end), i + 1)
      [] IsWord(t, i, K_false) -> OkExpr(BooleanLiteral(FALSE, t[i].start, t[i].end), i + 1)
      [] IsWord(t, i, K_null) -> OkExpr(NullLiteral(t[i].start, t[i].end), i + 1)
      [] IsWord(t, i, K_this) -> OkExpr(ThisExpression(t[i].start, t[i].end), i + 1)
      [] IsName(t, i) -> OkExpr(Identifier(t[i].v, t[i].start, t[i].end), i + 1)
      [] IsPunct(t, i, <<"[">>) ->
            Bind(ParseList(t, i + 1, <<"]">>, <<>>), LAMBDA l :
            IF ~l.ok THEN l
            ELSE OkExpr(ArrayExpression(l.node, t[i].start, t[l.next - 1].end), l.next))
      [] IsPunct(t, i, <<"(">>) ->
            Bind(ParseExpression(t, i + 1), LAMBDA e :
            IF ~e.ok THEN e
            ELSE IF ~IsPunct(t, e.next, <<")">>) THEN NoContinuation(t, e.next)
            ELSE OkParen(e.node, e.next + 1, t[i].start, t[e.next].end))
      [] IsWord(t, i, K_function) -> ParseFunction(t, i, "FunctionExpression")
      [] IsWord(t, i, K_new) -> ParseNew(t, i)
      [] OTHER -> NoOperand(t, i)

\* member accesses, calls and a postfix ++ or -- after the primary expression p
ParsePostfix(t, p, i) ==
    CASE IsPunct(t, i, <<".">>) /\ i + 1 <= Len(t) /\ t[i + 1].k = "word" ->
            ParsePostfix(t, OkExpr(MemberExpression(p.node, Identifier(t[i + 1].v, t[i + 1].start, t[i + 1].end),
                                                    FALSE, p.from, t[i + 1].end), i + 2), i + 2)
      [] IsPunct(t, i, <<".">>) /\ ~(i + 1 <= Len(t) /\ t[i + 1].k = "word") -> Unsure(t, i + 1)
      [] IsPunct(t, i, <<"[">>) ->
            Bind(ParseExpression(t, i + 1), LAMBDA e :
            IF ~e.ok THEN e
            ELSE IF ~IsPunct(t, e.next, <<"]">>) THEN NoContinuation(t, e.next)
            ELSE ParsePostfix(t, OkExpr(MemberExpression(p.node, e.node, TRUE, p.from, t[e.next].end),
                                        e.next + 1), e.next + 1))
      [] IsPunct(t, i, <<"(">>) ->
            Bind(ParseList(t, i + 1, <<")">>, <<>>), LAMBDA l :
            IF ~l.ok THEN l
            ELSE ParsePostfix(t, OkExpr(CallExpression(p.node, l.node, p.from, t[l.next - 1].end), l.next),
                              l.next))
      [] IsOp(t, i, UpdateOps) /\ ~t[i].nl ->
            IF ~Target(p.node, FALSE).ok THEN Target(p.node, FALSE)
            ELSE OkExpr(UpdateExpression(t[i].v, FALSE, p.node, p.from, t[i].end), i + 1)
      [] OTHER -> p

\* a unary expression: one before ** without parentheses is a syntax error
ParseUnary(t, i) ==
    CASE IsOp(t, i, PrefixOps) ->
            Bind(ParseUnary(t, i + 1), LAMBDA a :
            IF ~a.ok THEN a
            ELSE IF IsPunct(t, a.next, <<"*", "*">>) THEN Fail
            ELSE OkExpr(UnaryExpression(t[i].v, a.node, t[i].start, a.to), a.next))
      [] IsOp(t, i, UpdateOps) ->
            Bind(ParseUnary(t, i + 1), LAMBDA a :
            IF ~a.ok THEN a
            ELSE IF ~Target(a.node, FALSE).ok THEN Target(a.node, FALSE)
            ELSE OkExpr(UpdateExpression(t[i].v, TRUE, a.node, t[i].start, a.to), a.next))
      [] OTHER ->
            Bind(ParsePrimary(t, i), LAMBDA p :
            IF ~p.ok THEN p ELSE ParsePostfix(t, p, p.next))

\* the node of the binary operator op between the operands left and r
BinaryResult(op, left, r) ==
    OkExpr(BinaryNode(IF Precedence(op) <= 2 THEN "LogicalExpression" ELSE "BinaryExpression",
                      left.node, op, r.node, left.from, r.to), r.next)

RECURSIVE ForInit(_, _, _)
\* Whether the token after j stands in the first part of a for statement's
\* head, outside every bracket opened there, where the word in is no
\* operator: the tokens are read backwards from j, depth counting the closing
\* brackets still to be matched.
ForInit(t, j, depth) ==
    IF j < 1 THEN FALSE
    ELSE CASE t[j].k = "punct" /\ t[j].v \in {<<")">>, <<"]">>, <<"}">>} -> ForInit(t, j - 1, depth + 1)
           [] t[j].k = "punct" /\ t[j].v \in {<<"(">>, <<"[">>, <<"{">>} ->
                IF depth > 0 THEN ForInit(t, j - 1, depth - 1)
                ELSE t[j].v = <<"(">> /\ IsWord(t, j - 1, K_for)
           [] t[j].k = "punct" /\ t[j].v = <<";">> /\ depth = 0 -> FALSE
           [] OTHER -> ForInit(t, j - 1, depth)

\* the operators of precedence min and tighter that follow the operand left;
\* ** takes its right operand first
ParseBinRest(t, left, i, min) ==
    IF /\ i <= Len(t) /\ t[i].k \in {"punct", "word"} /\ Precedence(t[i].v) >= min
       /\ ~(t[i].v = K_in /\ ForInit(t, i - 1, 0)) THEN
        Bind(ParseBin(t, i + 1, IF t[i].v = <<"*", "*">> THEN Precedence(t[i].v)
                                ELSE Precedence(t[i].v) + 1), LAMBDA r :
        IF ~r.ok THEN r
        ELSE ParseBinRest(t, BinaryResult(t[i].v, left, r), r.next, min))
    ELSE left

\* the binary expression whose first operand has been parsed as l
ParseBinAfter(t, l, min) == IF ~l.ok THEN l ELSE ParseBinRest(t, l, l.next, min)

\* a binary expression whose operators have precedence min or tighter
ParseBin(t, i, min) ==
    Bind(ParseUnary(t, i), LAMBDA l : ParseBinAfter(t, l, min))

\* test ? consequent : alternate, the test parsed and the token at i being ?
ParseConditional(t, test, i) ==
    Bind(ParseAssign(t, i + 1), LAMBDA c :
    IF ~c.ok THEN c
    ELSE IF ~IsPunct(t, c.next, <<":">>) THEN NoContinuation(t, c.next)
    ELSE Bind(ParseAssign(t, c.next + 1), LAMBDA a :
         IF ~a.ok THEN a
         ELSE OkExpr(ConditionalExpression(test.node, c.node, a.node, test.from, a.to), a.next)))

\* an assignment, a conditional or a binary expression of any precedence
ParseAssignOf(t, i) ==
    Bind(ParseUnary(t, i), LAMBDA u :
    Bind(ParseBinAfter(t, u, 1), LAMBDA l :
    CASE ~l.ok -> l
      [] l.ok /\ IsPunct(t, l.next, <<"?">>) -> ParseConditional(t, l, l.next)
      [] l.ok /\ IsOp(t, l.next, AssignOps) ->
            IF ~Target(l.node, t[l.next].v = <<"=">> /\ l.from = l.node.start).ok
            THEN Target(l.node, t[l.next].v = <<"=">> /\ l.from = l.node.start)
            ELSE Bind(ParseAssign(t, l.next + 1), LAMBDA r :
                 IF ~r.ok THEN r
                 ELSE OkExpr(BinaryNode("AssignmentExpression", l.node, t[l.next].v, r.node,
                                        l.from, r.to), r.next))
      [] OTHER -> l))

\* the expressions after the first of a sequence, the token at i after a comma
ParseSequence(t, i, acc, from) ==
    Bind(ParseAssign(t, i), LAMBDA e :
    IF ~e.ok THEN e
    ELSE IF IsPunct(t, e.next, <<",">>) THEN ParseSequence(t, e.next + 1, Append(acc, e.node), from)
    ELSE OkExpr(SequenceExpression(Append(acc, e.node), from, e.to), e.next))

\* an expression: one assignment expression, or a sequence of them
ParseExpression(t, i) ==
    Bind(ParseAssign(t, i), LAMBDA e :
    IF e.ok /\ IsPunct(t, e.next, <<",">>)
    THEN ParseSequence(t, e.next + 1, <<e.node>>, e.from)
    ELSE e)

\* the statements of a block, a case or the program, up to a token that ends them
ParseStmts(t, i, ctx, acc) ==
    CASE i > Len(t) \/ IsPunct(t, i, <<"}">>) \/ IsWord(t, i, K_case) \/ IsWord(t, i, K_default) ->
            Ok(acc, i)
      [] OTHER ->
            Bind(ParseStmt(t, i, ctx), LAMBDA s :
            CASE ~s.ok -> s
              [] OTHER -> ParseStmts(t, s.next, ctx, Append(acc, s.node)))

ParseBlock(t, i, ctx) ==
    CASE ~IsPunct(t, i, <<"{">>) -> Unsure(t, i)
      [] OTHER ->
            Bind(ParseStmts(t, i + 1, InList(ctx), <<>>), LAMBDA b :
            IF ~b.ok THEN b
            ELSE IF ~IsPunct(t, b.next, <<"}">>) THEN Fail
            ELSE Ok(BlockStatement(b.node, t[i].start, t[b.next].end), b.next + 1))

\* the cases of a switch, up to its closing brace; a second default clause is
\* a syntax error
ParseCases(t, i, ctx, acc) ==
    CASE IsPunct(t, i, <<"}">>) -> Ok(acc, i)
      [] IsWord(t, i, K_case) ->
            Bind(ParseExpression(t, i + 1), LAMBDA e :
            IF ~e.ok THEN e
            ELSE IF ~IsPunct(t, e.next, <<":">>) THEN NoContinuation(t, e.next)
            ELSE Bind(ParseStmts(t, e.next + 1, InSwitch(ctx), <<>>), LAMBDA b :
                 IF ~b.ok THEN b
                 ELSE ParseCases(t, b.next, ctx,
                                 Append(acc, SwitchCase(b.node, e.node, t[i].start, t[b.next - 1].end)))))
      [] IsWord(t, i, K_default) ->
            IF \E k \in 1..Len(acc) : acc[k].test = Null THEN Fail
            ELSE IF ~IsPunct(t, i + 1, <<":">>) THEN Unsure(t, i + 1)
            ELSE Bind(ParseStmts(t, i + 2, InSwitch(ctx), <<>>), LAMBDA b :
                 IF ~b.ok THEN b
                 ELSE ParseCases(t, b.next, ctx,
                                 Append(acc, SwitchCase(b.node, Null, t[i].start, t[b.next - 1].end))))
      [] OTHER -> Unsure(t, i)

\* the semicolon ending a statement: present, or inserted before }, at the end
\* and before a token on a new line
StmtEnd(t, i) ==
    IF IsPunct(t, i, <<";">>) THEN [ok |-> TRUE, end |-> t[i].end, next |-> i + 1]
    ELSE IF i > Len(t) \/ IsPunct(t, i, <<"}">>) \/ t[i].nl
        THEN [ok |-> TRUE, end |-> t[i - 1].end, next |-> i]
    ELSE [ok |-> FALSE, end |-> 0, next |-> 0]

\* the statement whose last token stands before i, ended as StmtEnd tells;
\* Make gives the node from the offset of the end
Ended(t, i, Make(_)) ==
    Bind(StmtEnd(t, i), LAMBDA z :
    IF ~z.ok THEN NoContinuation(t, i) ELSE Ok(Make(z.end), z.next))

\* the declarators of a var declaration from the token at i on: id [= init],
\* separated by commas; `to` is the offset at which the last one ends
ParseDeclarators(t, i, acc) ==
    IF ~IsName(t, i) THEN Unsure(t, i)
    ELSE Bind(IF IsPunct(t, i + 1, <<"=">>) THEN ParseAssign(t, i + 2)
              ELSE OkParen(Null, i + 1, t[i].end, t[i].end), LAMBDA init :
         IF ~init.ok THEN init
         ELSE Bind(Append(acc, VariableDeclarator(Identifier(t[i].v, t[i].start, t[i].end),
                                                  init.node, init.to)), LAMBDA ds :
              IF IsPunct(t, init.next, <<",">>) THEN ParseDeclarators(t, init.next + 1, ds)
              ELSE OkParen(ds, init.next, 0, init.to)))

\* var declarators ;  with `var` the token at i
VarStatement(t, i) ==
    Bind(ParseDeclarators(t, i + 1, <<>>), LAMBDA d :
    IF ~d.ok THEN d
    ELSE Ended(t, d.next, LAMBDA end : VariableDeclaration(d.node, t[i].start, end)))

\* the else branch of an if statement whose consequent c has been parsed
ParseElse(t, i, test, c, ctx) ==
    IF ~c.ok THEN c
    ELSE IF IsWord(t, c.next, K_else) THEN
        Bind(ParseStmt(t, c.next + 1, InBody(ctx)), LAMBDA a :
        IF ~a.ok THEN a ELSE Ok(IfStatement(test, c.node, a.node, t[i].start), a.next))
    ELSE Ok(IfStatement(test, c.node, Null, t[i].start), c.next)

\* return [argument] ;  allowReturnOutsideFunction lets it stand anywhere
ParseReturn(t, i) ==
    IF StmtEnd(t, i + 1).ok
    THEN Ok(ReturnStatement(Null, t[i].start, StmtEnd(t, i + 1).end), StmtEnd(t, i + 1).next)
    ELSE Bind(ParseExpression(t, i + 1), LAMBDA e :
         IF ~e.ok THEN e
         ELSE Ended(t, e.next, LAMBDA end : ReturnStatement(e.node, t[i].start, end)))

\* ( expression ) after the keyword at i, as [ok, ..., node, next]
ParseHead(t, i) ==
    IF ~IsPunct(t, i + 1, <<"(">>) THEN Unsure(t, i + 1)
    ELSE Bind(ParseExpression(t, i + 2), LAMBDA e :
         IF ~e.ok THEN e
         ELSE IF ~IsPunct(t, e.next, <<")">>) THEN NoContinuation(t, e.next)
         ELSE Ok(e.node, e.next + 1))

\* an optional expression up to the punctuator close, which is consumed
ParseOptional(t, i, close) ==
    IF IsPunct(t, i, close) THEN Ok(Null, i + 1)
    ELSE Bind(ParseExpression(t, i), LAMBDA e :
         IF ~e.ok THEN e
         ELSE IF ~IsPunct(t, e.next, close) THEN NoContinuation(t, e.next)
         ELSE Ok(e.node, e.next + 1))

\* for (init; test; update) body, the token at j after the first semicolon
ParseForRest(t, i, j, init) ==
    Bind(ParseOptional(t, j, <<";">>), LAMBDA test :
    IF ~test.ok THEN test
    ELSE Bind(ParseOptional(t, test.next, <<")">>), LAMBDA update :
         IF ~update.ok THEN update
         ELSE Bind(ParseStmt(t, update.next, InLoop), LAMBDA b :
              IF ~b.ok THEN b
              ELSE Ok(ForStatement(init, test.node, update.node, b.node, t[i].start), b.next))))

\* for (left of right) body and for (left in right) body, the token at j
\* being of or in
ParseForEach(t, i, j, left) ==
    Bind(IF IsWord(t, j, K_of) THEN ParseAssign(t, j + 1) ELSE ParseExpression(t, j + 1), LAMBDA r :
    IF ~r.ok THEN r
    ELSE IF ~IsPunct(t, r.next, <<")">>) THEN NoContinuation(t, r.next)
    ELSE Bind(ParseStmt(t, r.next + 1, InLoop), LAMBDA b :
         IF ~b.ok THEN b
         ELSE Ok(ForEachNode(IF IsWord(t, j, K_of) THEN "ForOfStatement" ELSE "ForInStatement",
                             left, r.node, b.node, t[i].start), b.next)))

\* What follows the head's first part, which ends before the token at j: of
\* or in when the part can be bound by each turn of the loop (each), or a
\* semicolon.
ParseForTail(t, i, j, left, each) ==
    CASE IsWord(t, j, K_of) \/ IsWord(t, j, K_in) ->
            IF each THEN ParseForEach(t, i, j, left) ELSE Beyond
      [] IsPunct(t, j, <<";">>) -> ParseForRest(t, i, j + 1, left)
      [] OTHER -> NoContinuation(t, j)

\* a for statement, `for` the token at i
ParseFor(t, i) ==
    IF ~IsPunct(t, i + 1, <<"(">>) THEN Unsure(t, i + 1)
    ELSE IF IsPunct(t, i + 2, <<";">>) THEN ParseForRest(t, i, i + 3, Null)
    ELSE IF IsWord(t, i + 2, K_var) THEN
        Bind(ParseDeclarators(t, i + 3, <<>>), LAMBDA d :
        IF ~d.ok THEN d
        ELSE ParseForTail(t, i, d.next, VariableDeclaration(d.node, t[i + 2].start, d.to),
                          Len(d.node) = 1 /\ d.node[1].init = Null))
    ELSE Bind(ParseExpression(t, i + 2), LAMBDA e :
         IF ~e.ok THEN e
         ELSE ParseForTail(t, i, e.next, e.node, e.node.type \in {"Identifier", "MemberExpression"}))

\* do body while ( test ) [;], `do` the token at i
ParseDo(t, i) ==
    Bind(ParseStmt(t, i + 1, InLoop), LAMBDA b :
    IF ~b.ok THEN b
    ELSE IF ~IsWord(t, b.next, K_while) THEN NoContinuation(t, b.next)
    ELSE Bind(ParseHead(t, b.next), LAMBDA e :
         IF ~e.ok THEN e
         ELSE IF IsPunct(t, e.next, <<";">>)
             THEN Ok(DoWhileStatement(b.node, e.node, t[i].start, t[e.next].end), e.next + 1)
         ELSE Ok(DoWhileStatement(b.node, e.node, t[i].start, t[e.next - 1].end), e.next)))

\* the handler and the finalizer of a try statement whose block has been
\* parsed, the token at j after the block
ParseFinally(t, i, j, block, handler, ctx) ==
    IF ~IsWord(t, j, K_finally)
    THEN IF handler = Null THEN Fail ELSE Ok(TryStatement(block, handler, Null, t[i].start), j)
    ELSE Bind(ParseBlock(t, j + 1, ctx), LAMBDA f :
         IF ~f.ok THEN f ELSE Ok(TryStatement(block, handler, f.node, t[i].start), f.next))

\* try block [catch (param) block] [finally block], `try` the token at i
ParseTry(t, i, ctx) ==
    Bind(ParseBlock(t, i + 1, ctx), LAMBDA b :
    IF ~b.ok THEN b
    ELSE IF ~IsWord(t, b.next, K_catch) THEN ParseFinally(t, i, b.next, b.node, Null, ctx)
    ELSE IF ~IsPunct(t, b.next + 1, <<"(">>) THEN Unsure(t, b.next + 1)
    ELSE IF ~IsName(t, b.next + 2) THEN Unsure(t, b.next + 2)
    ELSE IF ~IsPunct(t, b.next + 3, <<")">>) THEN Unsure(t, b.next + 3)
    ELSE Bind(ParseBlock(t, b.next + 4, ctx), LAMBDA c :
         IF ~c.ok THEN c
         ELSE ParseFinally(t, i, c.next, b.node,
                           CatchClause(Identifier(t[b.next + 2].v, t[b.next + 2].start,
                                                  t[b.next + 2].end),
                                       c.node, t[b.next].start), ctx)))

\* break or continue, the token at i: a label is outside the subset, and the
\* statement is a syntax error where ctx does not allow it
ParseJump(t, i, allowed) ==
    IF i + 1 <= Len(t) /\ t[i + 1].k = "word" /\ ~t[i + 1].nl THEN Beyond
    ELSE IF ~allowed THEN Fail
    ELSE Ended(t, i + 1, LAMBDA end :
             IF t[i].v = K_break THEN BreakStatement(t[i].start, end)
             ELSE ContinueStatement(t[i].start, end))

\* throw argument ;  with no line terminator after throw
ParseThrow(t, i) ==
    IF i + 1 > Len(t) THEN Fail
    ELSE IF t[i + 1].nl THEN Fail
    ELSE Bind(ParseExpression(t, i + 1), LAMBDA e :
         IF ~e.ok THEN e
         ELSE Ended(t, e.next, LAMBDA end : ThrowStatement(e.node, t[i].start, end)))

\* an expression statement; a name before a colon is a label
ParseExpressionStatement(t, i) ==
    Bind(ParseExpression(t, i), LAMBDA e :
    IF ~e.ok THEN e
    ELSE IF IsPunct(t, e.next, <<":">>) /\ e.node.type = "Identifier" THEN Beyond
    ELSE Ended(t, e.next, LAMBDA end : ExpressionStatement(e.node, e.from, end)))

ParseStmtOf(t, i, ctx) ==
    CASE i > Len(t) -> Fail
      [] IsPunct(t, i, <<";">>) -> Ok(EmptyStatement(t[i].start, t[i].end), i + 1)
      [] IsWord(t, i, K_var) -> VarStatement(t, i)
      [] IsWord(t, i, K_function) ->
            IF ctx.list THEN ParseFunction(t, i, "FunctionDeclaration") ELSE Beyond
      [] IsWord(t, i, K_if) ->
            Bind(ParseHead(t, i), LAMBDA e :
            IF ~e.ok THEN e
            ELSE ParseElse(t, i, e.node, ParseStmt(t, e.next, InBody(ctx)), ctx))
      [] IsWord(t, i, K_for) -> ParseFor(t, i)
      [] IsWord(t, i, K_while) ->
            Bind(ParseHead(t, i), LAMBDA e :
            IF ~e.ok THEN e
            ELSE Bind(ParseStmt(t, e.next, InLoop), LAMBDA b :
                 IF ~b.ok THEN b ELSE Ok(WhileStatement(e.node, b.node, t[i].start), b.next)))
      [] IsWord(t, i, K_do) -> ParseDo(t, i)
      [] IsWord(t, i, K_switch) ->
            Bind(ParseHead(t, i), LAMBDA e :
            IF ~e.ok THEN e
            ELSE IF ~IsPunct(t, e.next, <<"{">>) THEN Unsure(t, e.next)
            ELSE Bind(ParseCases(t, e.next + 1, ctx, <<>>), LAMBDA cs :
                 IF ~cs.ok THEN cs
                 ELSE Ok(SwitchStatement(e.node, cs.node, t[i].start, t[cs.next].end), cs.next + 1)))
      [] IsWord(t, i, K_break) -> ParseJump(t, i, ctx.brk)
      [] IsWord(t, i, K_continue) -> ParseJump(t, i, ctx.cont)
      [] IsWord(t, i, K_return) -> ParseReturn(t, i)
      [] IsWord(t, i, K_throw) -> ParseThrow(t, i)
      [] IsWord(t, i, K_try) -> ParseTry(t, i, ctx)
      [] IsWord(t, i, K_debugger) ->
            Ended(t, i + 1, LAMBDA end : DebuggerStatement(t[i].start, end))
      [] IsPunct(t, i, <<"{">>) -> ParseBlock(t, i, ctx)
      [] OTHER -> ParseExpressionStatement(t, i)

(***************************************************************************)
(* Traversal: `for (const key in node)` visits a node's object-valued      *)
(* fields in the order the parser created them; null fields and scalars    *)
(* are skipped.                                                            *)
(***************************************************************************)
NotNull(ns) == SelectSeq(ns, LAMBDA n : n # Null)

Children(n) ==
    CASE n.type \in {"Program", "BlockStatement"} -> n.body
      [] n.type = "ExpressionStatement" -> <<n.expression>>
      [] n.type = "VariableDeclaration" -> n.declarations
      [] n.type = "VariableDeclarator" -> NotNull(<<n.id, n.init>>)
      [] n.type \in {"FunctionDeclaration", "FunctionExpression"} -> NotNull(<<n.id>>) \o n.params \o <<n.body>>
      [] n.type = "IfStatement" -> NotNull(<<n.test, n.consequent, n.alternate>>)
      [] n.type \in {"ForOfStatement", "ForInStatement"} -> <<n.left, n.right, n.body>>
      [] n.type = "ForStatement" -> NotNull(<<n.init, n.test, n.update, n.body>>)
      [] n.type = "WhileStatement" -> <<n.test, n.body>>
      [] n.type = "DoWhileStatement" -> <<n.body, n.test>>
      [] n.type = "SwitchStatement" -> <<n.discriminant>> \o n.cases
      [] n.type = "SwitchCase" -> n.consequent \o NotNull(<<n.test>>)
      [] n.type \in {"CallExpression", "NewExpression"} -> <<n.callee>> \o n.arguments
      [] n.type = "MemberExpression" -> <<n.object, n.property>>
      [] n.type \in {"BinaryExpression", "LogicalExpression", "AssignmentExpression"} -> <<n.left, n.right>>
      [] n.type \in {"UnaryExpression", "UpdateExpression"} -> <<n.argument>>
      [] n.type = "ConditionalExpression" -> <<n.test, n.consequent, n.alternate>>
      [] n.type = "SequenceExpression" -> n.expressions
      [] n.type \in {"ReturnStatement", "ThrowStatement"} -> NotNull(<<n.argument>>)
      [] n.type = "TryStatement" -> NotNull(<<n.block, n.handler, n.finalizer>>)
      [] n.type = "CatchClause" -> <<n.param, n.body>>
      [] n.type = "ArrayExpression" -> n.elements
      [] OTHER -> <<>>

RECURSIVE PreOrder(_), PreOrderAll(_)
\* the nodes in the order the recursive traverse(node) functions visit them
PreOrder(n) == <<n>> \o PreOrderAll(Children(n))
PreOrderAll(ns) == IF ns = <<>> THEN <<>> ELSE PreOrder(Head(ns)) \o PreOrderAll(Tail(ns))

(***************************************************************************)
(* The errors the parser finds in a text that follows the grammar.         *)
(***************************************************************************)
K_UseStrict == <<"u", "s", "e", " ", "s", "t", "r", "i", "c", "t">>
K_eval == <<"e", "v", "a", "l">>
K_arguments == <<"a", "r", "g", "u", "m", "e", "n", "t", "s">>
\* the words strict code reserves
StrictReserved ==
    {<<"i", "m", "p", "l", "e", "m", "e", "n", "t", "s">>, <<"i", "n", "t", "e", "r", "f", "a", "c", "e">>, <<"l", "e", "t">>, <<"p", "a", "c", "k", "a", "g", "e">>, <<"p", "r", "i", "v", "a", "t", "e">>, <<"p", "r", "o", "t", "e", "c", "t", "e", "d">>,
     <<"p", "u", "b", "l", "i", "c">>, <<"s", "t", "a", "t", "i", "c">>, <<"y", "i", "e", "l", "d">>}

\* whether the token at i is an error in strict code: a literal with a leading
\* zero, an octal escape, a reserved word as a name
StrictError(t, i) ==
    \/ t[i].k = "num" /\ t[i].n = 1
    \/ t[i].k = "str" /\ t[i].n = 1
    \/ /\ t[i].k = "word"
       /\ ~(i > 1 /\ IsPunct(t, i - 1, <<".">>))
       /\ t[i].v \in StrictReserved

\* whether two of the names are the same
HasDuplicate(names) == \E i, j \in 1..Len(names) : i < j /\ names[i] = names[j]
\* whether the node binds or assigns the name eval or arguments
IsStrictName(n) == n.type = "Identifier" /\ n.name \in {K_eval, K_arguments}

\* whether the node is an error in strict code: delete of a name, a parameter
\* name given twice, eval or arguments bound or assigned
StrictNode(n) ==
    CASE n.type = "UnaryExpression" -> n.operator = K_delete /\ n.argument.type = "Identifier"
      [] n.type \in {"FunctionDeclaration", "FunctionExpression"} ->
            \/ IsStrictName(n.id)
            \/ \E k \in 1..Len(n.params) : IsStrictName(n.params[k])
            \/ HasDuplicate([k \in 1..Len(n.params) |-> n.params[k].name])
      [] n.type = "VariableDeclarator" -> IsStrictName(n.id)
      [] n.type = "CatchClause" -> IsStrictName(n.param)
      [] n.type = "AssignmentExpression" -> IsStrictName(n.left)
      [] n.type = "UpdateExpression" -> IsStrictName(n.argument)
      [] n.type \in {"ForOfStatement", "ForInStatement"} -> IsStrictName(n.left)
      [] OTHER -> FALSE

\* whether the statement is a directive: a string literal, without parentheses
IsDirective(s) ==
    s.type = "ExpressionStatement" /\ s.expression.type = "StringLiteral" /\ s.start = s.expression.start

RECURSIVE UseStrictFrom(_, _)
\* whether the directives that start at statement k hold "use strict"
UseStrictFrom(stmts, k) ==
    IF k > Len(stmts) THEN FALSE
    ELSE IF ~IsDirective(stmts[k]) THEN FALSE
    ELSE \/ /\ stmts[k].expression.value = K_UseStrict
            /\ stmts[k].expression.end - stmts[k].expression.start = Len(K_UseStrict) + 2
         \/ UseStrictFrom(stmts, k + 1)

RECURSIVE Consequents(_)
\* the statements of the cases of a switch
Consequents(cases) ==
    IF cases = <<>> THEN <<>> ELSE Head(cases).consequent \o Consequents(Tail(cases))

\* the function declarations among the statements of a block or a switch
Declared(n) ==
    SelectSeq(IF n.type = "BlockStatement" THEN n.body ELSE Consequents(n.cases),
              LAMBDA s : s.type = "FunctionDeclaration")

\* Whether the node n, one of nodes, is a block that declares a function
\* whose name is declared again inside it, or a catch clause whose parameter
\* is: where the scopes of the language make that an error the model does not
\* tell.  The body of a function is no block of its own.
Redeclares(n, nodes) ==
    CASE n.type \in {"BlockStatement", "SwitchStatement"} ->
            /\ Declared(n) # <<>>
            /\ ~\E k \in 1..Len(nodes) :
                    nodes[k].type \in {"FunctionDeclaration", "FunctionExpression"} /\ nodes[k].body = n
            /\ \/ HasDuplicate([k \in 1..Len(Declared(n)) |-> Declared(n)[k].id.name])
               \/ Bind(PreOrder(n), LAMBDA inner :
                  \E k \in 1..Len(inner) :
                      /\ inner[k].type = "VariableDeclarator"
                      /\ \E f \in 1..Len(Declared(n)) : Declared(n)[f].id.name = inner[k].id.name)
      [] n.type = "CatchClause" ->
            Bind(PreOrder(n.body), LAMBDA inner :
            \E k \in 1..Len(inner) :
                /\ inner[k].type \in {"VariableDeclarator", "FunctionDeclaration"}
                /\ inner[k].id.name = n.param.name)
      [] OTHER -> FALSE

\* whether a function of the nodes has the directive "use strict" of its own
StrictFunction(nodes) ==
    \E k \in 1..Len(nodes) :
        /\ nodes[k].type \in {"FunctionDeclaration", "FunctionExpression"}
        /\ UseStrictFrom(nodes[k].body.body, 1)

\* What the parser makes of the statements stmts, which follow the grammar and
\* were read from the tokens t: "ok", "error" for a syntax error, "unmodelled"
\* where the model does not tell.  strict tells whether the code around them
\* is strict.
Verdict(stmts, t, strict) ==
    Bind(PreOrderAll(stmts), LAMBDA nodes :
    Bind(strict \/ UseStrictFrom(stmts, 1), LAMBDA s :
    IF \E k \in 1..Len(nodes) : Redeclares(nodes[k], nodes) THEN "unmodelled"
    ELSE IF ~s /\ StrictFunction(nodes) THEN "unmodelled"
    ELSE IF s /\ ((\E i \in 1..Len(t) : StrictError(t, i)) \/ \E k \in 1..Len(nodes) : StrictNode(nodes[k]))
        THEN "error"
    ELSE "ok"))

\* parser.parse(text, ...): [ok, ast, unmodelled]; ok = FALSE stands for the
\* thrown syntax error, unmodelled = TRUE for a text outside the subset
ParseFailure == [ok |-> FALSE, ast |-> Null, unmodelled |-> FALSE]
ParseBeyond == [ok |-> FALSE, ast |-> Null, unmodelled |-> TRUE]
ParseOf(text) ==
    Bind(Tokenize(text), LAMBDA t :
    Bind(ParseStmts(t, 1, NoContext, <<>>), LAMBDA p :
    CASE ~p.ok -> IF p.unmodelled THEN ParseBeyond ELSE ParseFailure
      [] p.ok /\ p.next # Len(t) + 1 -> ParseFailure
      [] OTHER ->
            Bind(Verdict(p.node, t, FALSE), LAMBDA v :
            CASE v = "ok" -> [ok |-> TRUE, ast |-> Program(p.node, Len(text)), unmodelled |-> FALSE]
              [] v = "error" -> ParseFailure
              [] OTHER -> ParseBeyond)))

\* node.name: undefined (here the empty name) unless the node is an identifier
Undefined == <<>>
NameOf(n) == IF n.type = "Identifier" THEN n.name ELSE Undefined

IsSystemRegisterCall(node) ==
    /\ node.type = "CallExpression"
    /\ node.callee.type = "MemberExpression"
    /\ NameOf(node.callee.object) = K_System
    /\ NameOf(node.callee.property) = K_register

findSystemRegisterCalls(ast) == SelectSeq(PreOrder(ast), IsSystemRegisterCall)

\* extractOriginalCode(content, startPos, endPos)
extractOriginalCode(content, startPos, endPos) == Substring(content, startPos, endPos)

(***************************************************************************)
(* Names: extractFileName, sanitizeFileName, createMethodName.  NoName     *)
(* stands for the null they return.                                        *)
(***************************************************************************)
NoName == <<>>

\* s.replace(/[...]/g, '_') for a character class given as a predicate
ReplaceClass(s, InClass(_)) == [i \in 1..Len(s) |-> IF InClass(s[i]) THEN "_" ELSE s[i]]

RECURSIVE CollapseUnderscores(_)
\* s.replace(/_{2,}/g, '_')
CollapseUnderscores(s) ==
    IF Len(s) < 2 THEN s
    ELSE IF s[1] = "_" /\ s[2] = "_" THEN CollapseUnderscores(Tail(s))
    ELSE <<s[1]>> \o CollapseUnderscores(Tail(s))

RECURSIVE DropLeading(_, _), DropLeadingNot(_, _), DropTrailing(_, _)
\* s.replace(/^[class]+/, '')
DropLeading(s, class) ==
    IF s # <<>> /\ s[1] \in class THEN DropLeading(Tail(s), class) ELSE s
\* s.replace(/^[^class]+/, '')
DropLeadingNot(s, class) ==
    IF s # <<>> /\ s[1] \notin class THEN DropLeadingNot(Tail(s), class) ELSE s
\* s.replace(/[class]+$/, '')
DropTrailing(s, class) ==
    IF s # <<>> /\ s[Len(s)] \in class THEN DropTrailing(SubSeq(s, 1, Len(s) - 1), class) ELSE s

\* s.replace(/^_+|_+$/g, '')
TrimUnderscores(s) == DropTrailing(DropLeading(s, {"_"}), {"_"})

\* s.lastIndexOf(c), 0-based, -1 when absent
LastIndexOf(s, c) ==
    IF \E i \in 1..Len(s) : s[i] = c
    THEN (CHOOSE i \in 1..Len(s) : s[i] = c /\ \A j \in (i + 1)..Len(s) : s[j] # c) - 1
    ELSE -1

\* parts[parts.length - 1] of s.split(sep)
LastPart(s, sep) == SubstringFrom(s, LastIndexOf(s, sep) + 1)

\* the class [%\s=&<>:"/\\|?*]
UnsafeChar(c) == c \in {"%", "=", "&", "<", ">", ":", "\"", "/", "\\", "|", "?", "*"} \cup SpaceChar

extractFileName(pathString) ==
    LET cleanPath == SelectSeq(pathString, LAMBDA c : c \notin {"'", "\""})
        fileName == LastPart(LastPart(LastPart(cleanPath, "\\"), "/"), ":")
    IN  DropLeadingNot(fileName, WordChar \cup {".", "-"})

sanitizeFileName(fileName) ==
    IF fileName = NoName THEN NoName
    ELSE LET lastDotIndex == LastIndexOf(fileName, ".")
             baseName == IF lastDotIndex > 0 THEN Substring(fileName, 0, lastDotIndex) ELSE fileName
             extension == IF lastDotIndex > 0 THEN SubstringFrom(fileName, lastDotIndex) ELSE <<>>
             cleaned == TrimUnderscores(CollapseUnderscores(
                            ReplaceClass(ReplaceClass(baseName, UnsafeChar),
                                         LAMBDA c : c \notin WordChar \cup SpaceChar \cup {"-"})))
             started == IF cleaned # <<>> /\ cleaned[1] \in Letter \cup {"_"} THEN cleaned
                        ELSE <<"_">> \o cleaned
         IN  started \o extension

\* path.parse(fileName).name for a name without directory separators: the
\* extension starts at the last dot, unless that dot is the first character
\* or the name is `..`
PathParseName(fileName) ==
    IF fileName = <<".", ".">> THEN fileName
    ELSE IF LastIndexOf(fileName, ".") > 0 THEN Substring(fileName, 0, LastIndexOf(fileName, "."))
    ELSE fileName

\* path.parse(fileName).ext
PathParseExt(fileName) == SubstringFrom(fileName, Len(PathParseName(fileName)))

RECURSIVE SplitOn(_, _)
\* String.prototype.split(sep) for a separator of one character
SplitOn(s, sep) ==
    IF \A i \in 1..Len(s) : s[i] # sep THEN <<s>>
    ELSE Bind(CHOOSE i \in 1..Len(s) : s[i] = sep /\ \A j \in 1..(i - 1) : s[j] # sep, LAMBDA i :
         <<SubSeq(s, 1, i - 1)>> \o SplitOn(SubSeq(s, i + 1, Len(s)), sep))

RECURSIVE NormalizeSegments(_, _, _)
\* normalizeString of path.posix: `.` and empty segments dropped, `..` taking
\* the segment before it away
NormalizeSegments(segments, res, allowAboveRoot) ==
    IF segments = <<>> THEN res
    ELSE IF Head(segments) \in {<<>>, <<".">>}
        THEN NormalizeSegments(Tail(segments), res, allowAboveRoot)
    ELSE IF Head(segments) = <<".", ".">>
        THEN IF res # <<>> /\ res[Len(res)] # <<".", ".">>
             THEN NormalizeSegments(Tail(segments), SubSeq(res, 1, Len(res) - 1), allowAboveRoot)
             ELSE IF allowAboveRoot
             THEN NormalizeSegments(Tail(segments), Append(res, <<".", ".">>), allowAboveRoot)
             ELSE NormalizeSegments(Tail(segments), res, allowAboveRoot)
    ELSE NormalizeSegments(Tail(segments), Append(res, Head(segments)), allowAboveRoot)

\* path.posix.normalize
PathNormalize(p) ==
    IF p = <<>> THEN <<".">>
    ELSE Bind(Join(NormalizeSegments(SplitOn(p, "/"), <<>>, p[1] # "/"), <<"/">>), LAMBDA normal :
         IF normal = <<>>
         THEN IF p[1] = "/" THEN <<"/">>
              ELSE IF p[Len(p)] = "/" THEN <<".", "/">> ELSE <<".">>
         ELSE (IF p[1] = "/" THEN <<"/">> ELSE <<>>) \o normal
              \o (IF p[Len(p)] = "/" THEN <<"/">> ELSE <<>>))

\* path.posix.join of two parts
PathJoin(a, b) ==
    IF a = <<>> /\ b = <<>> THEN <<".">>
    ELSE IF a = <<>> THEN PathNormalize(b)
    ELSE IF b = <<>> THEN PathNormalize(a)
    ELSE PathNormalize(a \o <<"/">> \o b)

\* the greatest number of the set, 0 for the empty set
Greatest(S) == IF S = {} THEN 0 ELSE CHOOSE i \in S : \A j \in S : j <= i

\* path.posix.dirname
PathDirname(p) ==
    Bind(Greatest({i \in 2..Len(p) : p[i] = "/" /\ \E j \in (i + 1)..Len(p) : p[j] # "/"}), LAMBDA end :
        IF end = 0 THEN (IF p # <<>> /\ p[1] = "/" THEN <<"/">> ELSE <<".">>)
        ELSE IF p[1] = "/" /\ end = 2 THEN <<"/", "/">>
        ELSE SubSeq(p, 1, end - 1))

\* path.posix.basename
PathBasename(p) ==
    Bind(Greatest({i \in 1..Len(p) : p[i] # "/"}), LAMBDA end :
        SubSeq(p, Greatest({i \in 1..(end - 1) : p[i] = "/"}) + 1, end))

K_Register == <<"R", "e", "g", "i", "s", "t", "e", "r">>

createMethodName(fileName) ==
    LET baseName == PathParseName(fileName)
        cleaned == TrimUnderscores(CollapseUnderscores(
                       ReplaceClass(ReplaceClass(baseName, UnsafeChar), LAMBDA c : c \notin WordChar)))
        sanitizedName == IF cleaned # <<>> /\ cleaned[1] \in Letter \cup {"_"} THEN cleaned
                         ELSE <<"_">> \o cleaned
    IN  K_Register \o <<ToUpper(sanitizedName[1])>> \o Tail(sanitizedName)

(***************************************************************************)
(* The Rewrite Engine: the three apply loops of the script sort the        *)
(* replacements by descending start and splice them in one at a time.      *)
(***************************************************************************)
Replacement(start, end, text) == [start |-> start, end |-> end, replacement |-> text]

RECURSIVE InsertByStartDesc(_, _)
\* r placed before the first element that starts before it: after the elements
\* that compare equal, as the stable Array.prototype.sort places it
InsertByStartDesc(sorted, r) ==
    IF sorted = <<>> THEN <<r>>
    ELSE IF Head(sorted).start < r.start THEN <<r>> \o sorted
    ELSE <<Head(sorted)>> \o InsertByStartDesc(Tail(sorted), r)

RECURSIVE SortByStartDesc(_)
\* the replacements left in the order they were pushed
KeepOrder(rs) == rs

\* replacements.sort((a, b) => b.start - a.start)
SortByStartDesc(rs) ==
    IF rs = <<>> THEN <<>>
    ELSE InsertByStartDesc(SortByStartDesc(SubSeq(rs, 1, Len(rs) - 1)), rs[Len(rs)])

\* content.substring(0, start) + replacement + content.substring(end)
Splice(content, r) ==
    Substring(content, 0, r.start) \o r.replacement \o SubstringFrom(content, r.end)

RECURSIVE SpliceAll(_, _)
\* sorted.forEach(r => content = splice of r into content)
SpliceAll(content, sorted) ==
    IF sorted = <<>> THEN content ELSE SpliceAll(Splice(content, Head(sorted)), Tail(sorted))

ApplyReplacements(content, rs) == SpliceAll(content, SortByStartDesc(rs))

(***************************************************************************)
(* Natural numbers of any size, for the arithmetic of the JavaScript       *)
(* numbers: a sequence of digits of base 2^15, the lowest first, with no   *)
(* zero at the top.                                                        *)
(***************************************************************************)
BigBase == 32768
BigBits == 15
Pow2(n) == 2 ^ n

Zeros(n) == [i \in 1..n |-> 0]
BigDigit(a, i) == IF 1 <= i /\ i <= Len(a) THEN a[i] ELSE 0

RECURSIVE BigTrim(_)
\* a without the zeros at its top
BigTrim(a) ==
    IF a = <<>> \/ a[Len(a)] # 0 THEN a
    ELSE IF \A i \in 1..Len(a) : a[i] = 0 THEN <<>>
    ELSE SubSeq(a, 1, CHOOSE i \in 1..Len(a) : a[i] # 0 /\ \A j \in (i + 1)..Len(a) : a[j] = 0)

RECURSIVE BigFromNat(_)
BigFromNat(n) == IF n = 0 THEN <<>> ELSE <<n % BigBase>> \o BigFromNat(n \div BigBase)

\* a number below 2^30 from its digits
BigToNat(a) == BigDigit(a, 1) + BigBase * BigDigit(a, 2)

\* the carry into digit i of a sum whose digits, before the carries, are s
CarryInto(s, i) ==
    IF i = 1 THEN 0
    ELSE IF s[i - 1] >= BigBase THEN 1
    ELSE IF s[i - 1] < BigBase - 1 THEN 0
    ELSE IF \E j \in 1..(i - 2) : s[j] >= BigBase /\ \A k \in (j + 1)..(i - 1) : s[k] = BigBase - 1
    THEN 1 ELSE 0

RECURSIVE BigAdd(_, _)
\* a + b
BigAdd(a, b) ==
    Bind([i \in 1..(Max(Len(a), Len(b)) + 1) |-> BigDigit(a, i) + BigDigit(b, i)], LAMBDA s :
        BigTrim([i \in 1..Len(s) |-> (s[i] + CarryInto(s, i)) % BigBase]))

\* the borrow from digit i of a difference whose digits, before the borrows, are d
BorrowFrom(d, i) ==
    IF i = 1 THEN 0
    ELSE IF d[i - 1] < 0 THEN 1
    ELSE IF d[i - 1] > 0 THEN 0
    ELSE IF \E j \in 1..(i - 2) : d[j] < 0 /\ \A k \in (j + 1)..(i - 1) : d[k] = 0
    THEN 1 ELSE 0

RECURSIVE BigSub(_, _)
\* a - b, for a >= b
BigSub(a, b) ==
    Bind([i \in 1..Len(a) |-> a[i] - BigDigit(b, i)], LAMBDA d :
        BigTrim([i \in 1..Len(d) |-> (d[i] - BorrowFrom(d, i)) % BigBase]))

RECURSIVE BigCmp(_, _)
\* -1, 0 or 1 as a is less than, equal to or greater than b
BigCmp(a, b) ==
    IF Len(a) < Len(b) THEN -1
    ELSE IF Len(a) > Len(b) THEN 1
    ELSE IF a = b THEN 0
    ELSE Bind(CHOOSE i \in 1..Len(a) : a[i] # b[i] /\ \A j \in (i + 1)..Len(a) : a[j] = b[j], LAMBDA i :
         IF a[i] < b[i] THEN -1 ELSE 1)

RECURSIVE BigMulSmall(_, _)
\* a * k, for k <= 2^15: the low and the high halves of the products of the
\* digits, added
BigMulSmall(a, k) ==
    BigAdd([i \in 1..Len(a) |-> (a[i] * k) % BigBase],
           [i \in 1..(Len(a) + 1) |-> IF i = 1 THEN 0 ELSE (a[i - 1] * k) \div BigBase])

RECURSIVE BigMulRange(_, _, _, _)
\* a times the digits lo to hi of b, at their weight
BigMulRange(a, b, lo, hi) ==
    IF lo = hi THEN Zeros(lo - 1) \o BigMulSmall(a, b[lo])
    ELSE BigAdd(BigMulRange(a, b, lo, (lo + hi) \div 2), BigMulRange(a, b, ((lo + hi) \div 2) + 1, hi))

RECURSIVE BigMul(_, _)
BigMul(a, b) == IF a = <<>> \/ b = <<>> THEN <<>> ELSE BigTrim(BigMulRange(a, b, 1, Len(b)))

RECURSIVE BigShl(_, _)
\* a * 2^n
BigShl(a, n) ==
    IF a = <<>> THEN <<>>
    ELSE Bind(Pow2(n % BigBits), LAMBDA f :
         Zeros(n \div BigBits)
         \o BigTrim([i \in 1..(Len(a) + 1) |->
                        ((BigDigit(a, i) * f) % BigBase) + ((BigDigit(a, i - 1) * f) \div BigBase)]))

RECURSIVE BigShr(_, _)
\* floor(a / 2^n)
BigShr(a, n) ==
    IF n \div BigBits >= Len(a) THEN <<>>
    ELSE Bind(n \div BigBits, LAMBDA q :
         Bind(Pow2(n % BigBits), LAMBDA f :
         BigTrim([i \in 1..(Len(a) - q) |->
                     (a[i + q] \div f) + ((BigDigit(a, i + q + 1) % f) * (BigBase \div f))])))

RECURSIVE NatBitLen(_)
NatBitLen(n) == IF n = 0 THEN 0 ELSE 1 + NatBitLen(n \div 2)

RECURSIVE BigBitLen(_)
\* the number of binary digits of a
BigBitLen(a) == IF a = <<>> THEN 0 ELSE BigBits * (Len(a) - 1) + NatBitLen(a[Len(a)])

\* the binary digit of weight 2^i of a
BigBit(a, i) == (BigDigit(a, (i \div BigBits) + 1) \div Pow2(i % BigBits)) % 2

RECURSIVE BigLowZero(_, _)
\* whether the n lowest binary digits of a are all zero
BigLowZero(a, n) ==
    /\ \A i \in 1..Min(n \div BigBits, Len(a)) : a[i] = 0
    /\ BigDigit(a, (n \div BigBits) + 1) % Pow2(n % BigBits) = 0

RECURSIVE NatTrailingZeros(_)
NatTrailingZeros(n) == IF n % 2 = 1 THEN 0 ELSE 1 + NatTrailingZeros(n \div 2)

RECURSIVE BigTrailingZeros(_)
\* the number of zero binary digits below the lowest one of a, for a > 0
BigTrailingZeros(a) ==
    Bind(CHOOSE i \in 1..Len(a) : a[i] # 0 /\ \A j \in 1..(i - 1) : a[j] = 0, LAMBDA i :
        BigBits * (i - 1) + NatTrailingZeros(a[i]))

\* one step of the long division of a by b in binary: the digit of weight 2^st.i
BigDivStep(a, b, st) ==
    Bind(BigAdd(BigAdd(st.r, st.r), IF BigBit(a, st.i) = 1 THEN <<1>> ELSE <<>>), LAMBDA r :
        IF BigCmp(r, b) >= 0
        THEN [i |-> st.i - 1, q |-> BigAdd(BigAdd(st.q, st.q), <<1>>), r |-> BigSub(r, b)]
        ELSE [i |-> st.i - 1, q |-> BigAdd(st.q, st.q), r |-> r])

RECURSIVE BigDivIter(_, _, _, _)
\* k steps of BigDivStep, an eighth of them at a time
BigDivIter(a, b, st, k) ==
    CASE k <= 0 -> st
      [] k = 1 -> BigDivStep(a, b, st)
      [] OTHER ->
          LET q == (k + 7) \div 8
              s1 == BigDivIter(a, b, st, q)
              s2 == BigDivIter(a, b, s1, Min(q, k - q))
              s3 == BigDivIter(a, b, s2, Min(q, k - 2 * q))
              s4 == BigDivIter(a, b, s3, Min(q, k - 3 * q))
              s5 == BigDivIter(a, b, s4, Min(q, k - 4 * q))
              s6 == BigDivIter(a, b, s5, Min(q, k - 5 * q))
              s7 == BigDivIter(a, b, s6, Min(q, k - 6 * q))
              s8 == BigDivIter(a, b, s7, Min(q, k - 7 * q))
          IN  CASE Len(<<s1, s2, s3, s4, s5, s6, s7>>) = 7 -> s8

RECURSIVE BigDivMod(_, _)
\* [q, r]: the quotient and the remainder of a by b, for b > 0
BigDivMod(a, b) ==
    LET n == Max(0, BigBitLen(a) - BigBitLen(b) + 1)
        st == BigDivIter(a, b, [i |-> n - 1, q |-> <<>>, r |-> BigShr(a, n)], n)
    IN  [q |-> st.q, r |-> st.r]

\* one step of the square root of a in binary: the digit of weight 2^st.i
BigSqrtStep(a, st) ==
    Bind(BigAdd(st.r, BigShl(<<1>>, st.i)), LAMBDA c :
        IF BigCmp(BigMul(c, c), a) <= 0 THEN [i |-> st.i - 1, r |-> c] ELSE [i |-> st.i - 1, r |-> st.r])

RECURSIVE BigSqrtIter(_, _, _)
\* k steps of BigSqrtStep, an eighth of them at a time
BigSqrtIter(a, st, k) ==
    CASE k <= 0 -> st
      [] k = 1 -> BigSqrtStep(a, st)
      [] OTHER ->
          LET q == (k + 7) \div 8
              s1 == BigSqrtIter(a, st, q)
              s2 == BigSqrtIter(a, s1, Min(q, k - q))
              s3 == BigSqrtIter(a, s2, Min(q, k - 2 * q))
              s4 == BigSqrtIter(a, s3, Min(q, k - 3 * q))
              s5 == BigSqrtIter(a, s4, Min(q, k - 4 * q))
              s6 == BigSqrtIter(a, s5, Min(q, k - 5 * q))
              s7 == BigSqrtIter(a, s6, Min(q, k - 6 * q))
              s8 == BigSqrtIter(a, s7, Min(q, k - 7 * q))
          IN  CASE Len(<<s1, s2, s3, s4, s5, s6, s7>>) = 7 -> s8

RECURSIVE BigSqrt(_)
\* floor(sqrt(a))
BigSqrt(a) ==
    Bind((BigBitLen(a) + 1) \div 2, LAMBDA n : BigSqrtIter(a, [i |-> n - 1, r |-> <<>>], n).r)

\* a^n
BigPowOf(a, n) ==
    IF n = 0 THEN <<1>>
    ELSE IF n % 2 = 1 THEN BigMul(a, BigPow(a, n - 1))
    ELSE Bind(BigPow(a, n \div 2), LAMBDA h : BigMul(h, h))

RECURSIVE BigFromRadix(_, _)
\* the number the digits ds write in the radix, by halves
BigFromRadix(ds, radix) ==
    IF ds = <<>> THEN <<>>
    ELSE IF Len(ds) = 1 THEN BigFromNat(RadixDigit(ds[1]))
    ELSE Bind(Len(ds) \div 2, LAMBDA h :
         BigAdd(BigMul(BigFromRadix(SubSeq(ds, 1, Len(ds) - h), radix), BigPow(<<radix>>, h)),
                BigFromRadix(SubSeq(ds, Len(ds) - h + 1, Len(ds)), radix)))

RECURSIVE BigToPadded(_, _)
\* the n decimal digits of a, for a < 10^n, by halves
BigToPadded(a, n) ==
    IF n <= 4
    THEN Bind(NatChars(BigToNat(a)), LAMBDA ds : [i \in 1..(n - Len(ds)) |-> "0"] \o ds)
    ELSE Bind(BigDivMod(a, BigPow(<<10>>, n \div 2)), LAMBDA d :
         BigToPadded(d.q, n - (n \div 2)) \o BigToPadded(d.r, n \div 2))

RECURSIVE BigToDigits(_)
\* the decimal digits of a, none for zero
BigToDigits(a) ==
    Bind(BigToPadded(a, ((BigBitLen(a) * 30103) \div 100000) + 1), LAMBDA ds :
        SubSeq(ds, RunEnd(ds, 1, {"0"}), Len(ds)))

(***************************************************************************)
(* The Number type: IEEE 754 binary64.  A finite number is m * 2^e with    *)
(* the sign neg, m odd or zero (e = 0 then), so that equal numbers are     *)
(* equal records; zero has a sign.  Every operation computes the exact     *)
(* result and rounds it to the nearest number, ties to even.              *)
(***************************************************************************)
Finite(neg, m, e) == [k |-> "finite", neg |-> neg, m |-> m, e |-> e]
NaN == [k |-> "nan", neg |-> FALSE, m |-> <<>>, e |-> 0]
Infinite(neg) == [k |-> "infinite", neg |-> neg, m |-> <<>>, e |-> 0]
Zero(neg) == Finite(neg, <<>>, 0)
IsZero(x) == x.k = "finite" /\ x.m = <<>>
\* x > 0
IsPositive(x) == x.k # "nan" /\ ~x.neg /\ ~IsZero(x)

RECURSIVE Exact(_, _, _)
\* the number m * 2^e, which needs no rounding
Exact(neg, m, e) ==
    IF m = <<>> THEN Zero(neg)
    ELSE Bind(BigTrailingZeros(m), LAMBDA z : Finite(neg, BigShr(m, z), e + z))

RECURSIVE RoundTo(_, _, _, _, _, _)
\* m * 2^e rounded to a format of prec binary digits whose least exponent of
\* the last digit is emin and whose greatest exponent of the first digit is emax
RoundTo(neg, m, e, prec, emin, emax) ==
    LET d == Max(e + BigBitLen(m) - prec, emin) - e
        keep == BigShr(m, d)
        r == IF BigBit(m, d - 1) = 1 /\ (~BigLowZero(m, d - 1) \/ BigBit(keep, 0) = 1)
             THEN BigAdd(keep, <<1>>) ELSE keep
    IN  CASE m = <<>> -> Zero(neg)
          [] m # <<>> /\ d <= 0 ->
                IF e + BigBitLen(m) - 1 > emax THEN Infinite(neg) ELSE Exact(neg, m, e)
          [] OTHER ->
                IF e + d + BigBitLen(r) - 1 > emax THEN Infinite(neg)
                ELSE Exact(neg, r, e + d)

RECURSIVE Round(_, _, _)
\* m * 2^e rounded to a Number
Round(neg, m, e) == RoundTo(neg, m, e, 53, -1074, 1023)

FromNat(n) == Exact(FALSE, BigFromNat(n), 0)
One == FromNat(1)
Negate(x) == IF x.k = "nan" THEN x ELSE [x EXCEPT !.neg = ~x.neg]
AbsOf(x) == IF x.k = "nan" THEN x ELSE [x EXCEPT !.neg = FALSE]

\* the exponent of the first binary digit of a finite x that is not zero
TopExponent(x) == x.e + BigBitLen(x.m) - 1

\* the sum of the finite numbers x and y, neither zero; a term below the
\* 60th binary digit of the other one leaves that one as it is
AddFinite(x, y) ==
    LET e == Min(x.e, y.e)
        a == BigShl(x.m, x.e - e)
        b == BigShl(y.m, y.e - e)
        c == BigCmp(a, b)
    IN  CASE TopExponent(x) - TopExponent(y) > 60 -> x
          [] TopExponent(y) - TopExponent(x) > 60 -> y
          [] OTHER ->
                CASE x.neg = y.neg -> Round(x.neg, BigAdd(a, b), e)
                  [] x.neg # y.neg /\ c = 0 -> Zero(FALSE)
                  [] x.neg # y.neg /\ c > 0 -> Round(x.neg, BigSub(a, b), e)
                  [] OTHER -> Round(y.neg, BigSub(b, a), e)

\* x + y
AddOf(x, y) ==
    CASE x.k = "nan" \/ y.k = "nan" -> NaN
      [] x.k = "infinite" /\ y.k = "infinite" -> IF x.neg # y.neg THEN NaN ELSE x
      [] x.k = "infinite" /\ y.k = "finite" -> x
      [] x.k = "finite" /\ y.k = "infinite" -> y
      [] x.k = "finite" /\ y.k = "finite" /\ IsZero(x) ->
            IF IsZero(y) THEN Zero(x.neg /\ y.neg) ELSE y
      [] x.k = "finite" /\ y.k = "finite" /\ ~IsZero(x) /\ IsZero(y) -> x
      [] OTHER -> AddFinite(x, y)

RECURSIVE Subtract(_, _)
\* x - y
Subtract(x, y) == Add(x, Negate(y))

\* x * y
MultiplyOf(x, y) ==
    CASE x.k = "nan" \/ y.k = "nan" -> NaN
      [] x.k # "nan" /\ y.k # "nan" /\ (x.k = "infinite" \/ y.k = "infinite") ->
            IF IsZero(x) \/ IsZero(y) THEN NaN ELSE Infinite(x.neg # y.neg)
      [] OTHER -> Round(x.neg # y.neg, BigMul(x.m, y.m), x.e + y.e)

\* the quotient of the finite numbers x and y, neither zero: the quotient of
\* the digits to 56 binary digits and more, with one more digit that tells
\* whether a remainder is left
DivideFinite(x, y) ==
    LET s == Max(0, 56 + BigBitLen(y.m) - BigBitLen(x.m))
        d == BigDivMod(BigShl(x.m, s), y.m)
        m == BigAdd(BigAdd(d.q, d.q), IF d.r = <<>> THEN <<>> ELSE <<1>>)
    IN  CASE Len(<<d, m>>) = 2 ->
        Round(x.neg # y.neg, m, x.e - y.e - s - 1)

\* x / y
DivideOf(x, y) ==
    CASE x.k = "nan" \/ y.k = "nan" -> NaN
      [] x.k = "infinite" /\ y.k = "infinite" -> NaN
      [] x.k = "infinite" /\ y.k = "finite" -> Infinite(x.neg # y.neg)
      [] x.k = "finite" /\ y.k = "infinite" -> Zero(x.neg # y.neg)
      [] x.k = "finite" /\ y.k = "finite" /\ IsZero(y) ->
            IF IsZero(x) THEN NaN ELSE Infinite(x.neg # y.neg)
      [] x.k = "finite" /\ y.k = "finite" /\ ~IsZero(y) /\ IsZero(x) -> Zero(x.neg # y.neg)
      [] OTHER -> DivideFinite(x, y)

\* "less", "equal" or "greater" as x stands to y, "unordered" with a NaN
OrderOf(x, y) ==
    IF x.k = "nan" \/ y.k = "nan" THEN "unordered"
    ELSE IF x.k = "infinite" /\ y.k = "infinite"
        THEN IF x.neg = y.neg THEN "equal" ELSE IF x.neg THEN "less" ELSE "greater"
    ELSE Bind(Subtract(x, y), LAMBDA d :
         IF IsZero(d) THEN "equal" ELSE IF d.neg THEN "less" ELSE "greater")

IsInteger(x) == x.k = "finite" /\ x.e >= 0

\* the integer part of the magnitude of a finite x
Whole(x) == IF x.e >= 0 THEN BigShl(x.m, x.e) ELSE BigShr(x.m, 0 - x.e)

\* Math.floor
FloorOf(x) ==
    IF x.k # "finite" \/ x.e >= 0 THEN x
    ELSE IF x.neg THEN Round(TRUE, BigAdd(Whole(x), <<1>>), 0)
    ELSE Exact(FALSE, Whole(x), 0)

\* Math.ceil
CeilOf(x) ==
    IF x.k # "finite" \/ x.e >= 0 THEN x
    ELSE IF x.neg THEN Exact(TRUE, Whole(x), 0)
    ELSE Round(FALSE, BigAdd(Whole(x), <<1>>), 0)

\* Math.trunc
TruncOf(x) == IF x.k # "finite" \/ x.e >= 0 THEN x ELSE Exact(x.neg, Whole(x), 0)

\* Math.round: the nearest integer, the greater one of two equally near
RoundHalfUpOf(x) ==
    IF x.k # "finite" \/ x.e >= 0 THEN x
    ELSE IF x.neg
        THEN IF x.e < -1 /\ BigBit(x.m, (0 - x.e) - 1) = 1
             THEN Round(TRUE, BigAdd(Whole(x), <<1>>), 0) ELSE Exact(TRUE, Whole(x), 0)
    ELSE IF BigBit(x.m, (0 - x.e) - 1) = 1
        THEN Round(FALSE, BigAdd(Whole(x), <<1>>), 0) ELSE Exact(FALSE, Whole(x), 0)

\* Math.sign
Sign(x) == IF x.k = "nan" \/ IsZero(x) THEN x ELSE [One EXCEPT !.neg = x.neg]

\* Math.sqrt: the root of the digits widened to 110 binary digits and more at
\* an even exponent, with one more digit that tells whether it is inexact
SqrtOf(x) ==
    IF x.k = "nan" \/ IsZero(x) THEN x
    ELSE IF x.neg THEN NaN
    ELSE IF x.k = "infinite" THEN x
    ELSE Bind(2 * ((Max(0, 110 - BigBitLen(x.m)) + 1) \div 2) + (x.e % 2), LAMBDA s :
         Bind(BigShl(x.m, s), LAMBDA a :
         Bind(BigSqrt(a), LAMBDA r :
             Round(FALSE, BigAdd(BigAdd(r, r), IF BigMul(r, r) = a THEN <<>> ELSE <<1>>),
                   ((x.e - s) \div 2) - 1))))

\* Math.fround
Fround(x) == IF x.k # "finite" THEN x ELSE RoundTo(x.neg, x.m, x.e, 24, -149, 127)

RECURSIVE MaxOf(_, _)
\* the greater of x and y, +0 above -0
MaxOf(x, y) ==
    IF x.k = "nan" \/ y.k = "nan" THEN NaN
    ELSE Bind(Order(x, y), LAMBDA o :
         IF o = "greater" THEN x ELSE IF o = "less" THEN y
         ELSE IF x.neg THEN y ELSE x)

RECURSIVE MinOf(_, _)
MinOf(x, y) ==
    IF x.k = "nan" \/ y.k = "nan" THEN NaN
    ELSE Bind(Order(x, y), LAMBDA o :
         IF o = "less" THEN x ELSE IF o = "greater" THEN y
         ELSE IF x.neg THEN x ELSE y)

(***************************************************************************)
(* Math.log, as the engine computes it (the algorithm of fdlibm's e_log.c, *)
(* which V8 carries in base/ieee754.cc): the argument is reduced to        *)
(* 2^k * (1 + f) with sqrt(2)/2 < 1 + f < sqrt(2) and log(1 + f) is        *)
(* approximated by a polynomial, every step rounded to a Number.           *)
(***************************************************************************)
Ln2Hi == Finite(FALSE, <<6135, 25316, 2>>, -32)
Ln2Lo == Finite(FALSE, <<7739, 13689, 29662, 104>>, -84)
Lg1 == Finite(FALSE, <<21907, 10922, 21845, 170>>, -53)
Lg2 == Finite(FALSE, <<32385, 19659, 6553, 51>>, -52)
Lg3 == Finite(FALSE, <<4953, 10309, 9362, 146>>, -54)
Lg4 == Finite(FALSE, <<30895, 15132, 18196, 227>>, -55)
Lg5 == Finite(FALSE, <<495, 5835, 3273, 93>>, -54)
Lg6 == Finite(FALSE, <<18079, 8433, 26663, 156>>, -55)
Lg7 == Finite(FALSE, <<5265, 28575, 28946, 37>>, -53)
Half == Finite(FALSE, <<1>>, -1)
Third == Finite(FALSE, <<21845, 10922, 21845, 170>>, -54)
Two == Finite(FALSE, <<1>>, 1)

FromInt(k) == IF k < 0 THEN Exact(TRUE, BigFromNat(0 - k), 0) ELSE FromNat(k)

\* the 20 binary digits that follow the first one of a positive finite x: the
\* fraction of the high word
HighFraction(x) == BigToNat(BigShr(BigShl(x.m, 53 - BigBitLen(x.m)), 32)) - 1048576

\* the end of the polynomial of log(1 + f), for f away from 0
LogTailEnd(f, dk, hx, s, R) ==
    LET hfsq == Multiply(Multiply(Half, f), f)
        high == Multiply(dk, Ln2Hi)
        low == Multiply(dk, Ln2Lo)
        sR == IF hx >= 398458 /\ hx <= 440401
              THEN Multiply(s, Add(hfsq, R)) ELSE Multiply(s, Subtract(f, R))
        rest == IF hx >= 398458 /\ hx <= 440401
                THEN IF IsZero(dk) THEN Subtract(hfsq, sR)
                     ELSE Subtract(Subtract(hfsq, Add(sR, low)), f)
                ELSE IF IsZero(dk) THEN sR
                     ELSE Subtract(Subtract(sR, low), f)
    IN  CASE Len(<<hfsq, high, low, sR, rest>>) = 5 ->
        IF IsZero(dk) THEN Subtract(f, rest) ELSE Subtract(high, rest)

\* the polynomial of log(1 + f), less f, for f away from 0
LogTail(f, dk, hx) ==
    LET s == Divide(f, Add(Two, f))
        z == Multiply(s, s)
        w == Multiply(z, z)
        a7 == Multiply(w, Lg7)
        a5 == Multiply(w, Add(Lg5, a7))
        a3 == Multiply(w, Add(Lg3, a5))
        t2 == Multiply(z, Add(Lg1, a3))
        b6 == Multiply(w, Lg6)
        b4 == Multiply(w, Add(Lg4, b6))
        t1 == Multiply(w, Add(Lg2, b4))
        R == Add(t2, t1)
    IN  CASE Len(<<s, z, w, a7, a5, a3, t2, b6, b4, t1, R>>) = 11 ->
        LogTailEnd(f, dk, hx, s, R)

\* log(1 + f) for |f| < 2^-20
LogNearOne(f, dk) ==
    LET R == Multiply(Multiply(f, f), Subtract(Half, Multiply(Third, f)))
        high == Multiply(dk, Ln2Hi)
        low == Multiply(dk, Ln2Lo)
    IN  CASE IsZero(f) /\ IsZero(dk) -> Zero(FALSE)
          [] IsZero(f) /\ ~IsZero(dk) -> Add(high, low)
          [] ~IsZero(f) /\ IsZero(dk) -> Subtract(f, R)
          [] OTHER ->
                CASE Len(<<R, high, low>>) = 3 ->
                    Subtract(high, Subtract(Subtract(R, low), f))

\* Math.log
LogOf(x) ==
    LET hx == HighFraction(x)
        i == IF hx >= 434332 THEN 1 ELSE 0
        dk == FromInt(x.e + BigBitLen(x.m) - 1 + i)
        f == Subtract(Exact(FALSE, x.m, 0 - (BigBitLen(x.m) - 1 + i)), One)
    IN  CASE x.k = "nan" -> NaN
          [] x.k = "finite" /\ IsZero(x) -> Infinite(TRUE)
          [] x.k # "nan" /\ ~IsZero(x) /\ x.neg -> NaN
          [] x.k = "infinite" /\ ~x.neg -> x
          [] OTHER ->
                IF (hx + 2) % 1048576 < 3 THEN LogNearOne(f, dk) ELSE LogTail(f, dk, hx)

(***************************************************************************)
(* Number::toString and StringToNumber: the conversions between a Number   *)
(* and its decimal text.                                                   *)
(***************************************************************************)
\* the Number nearest to c * 10^p, for a natural number c of any size
FromDecimalOf(neg, c, p) ==
    IF c = <<>> THEN Zero(neg)
    ELSE IF p >= 0 THEN Round(neg, BigMul(c, BigPow(<<10>>, p)), 0)
    ELSE Bind(BigPow(<<10>>, 0 - p), LAMBDA den :
         Bind(Max(0, 56 + BigBitLen(den) - BigBitLen(c)), LAMBDA s :
         Bind(BigDivMod(BigShl(c, s), den), LAMBDA d :
             Round(neg, BigAdd(BigAdd(d.q, d.q), IF d.r = <<>> THEN <<>> ELSE <<1>>), 0 - s - 1))))

\* x / 10^p for a positive finite x, as the fraction [num, den] of two numbers
Scaled(x, p) ==
    [num |-> BigMul(BigShl(x.m, Max(x.e, 0)), BigPow(<<10>>, Max(0 - p, 0))),
     den |-> BigMul(BigShl(<<1>>, Max(0 - x.e, 0)), BigPow(<<10>>, Max(p, 0)))]

\* whether 10^n <= x, for a positive finite x
AtLeastPow10(x, n) == Bind(Scaled(x, n), LAMBDA f : BigCmp(f.num, f.den) >= 0)

\* the n with 10^(n-1) <= x < 10^n, for a positive finite x
DecimalExponent(x) ==
    Bind((((x.e + BigBitLen(x.m) - 1) * 30103) \div 100000) + 1, LAMBDA n :
        IF ~AtLeastPow10(x, n - 1) THEN n - 1
        ELSE IF AtLeastPow10(x, n) THEN n + 1
        ELSE n)

\* the k decimal digits s with s * 10^(n-k) nearest to x among those that
\* round to x, as [ok, s, n]; of the two candidates around x the closer one,
\* and the even one of two equally close
NoDigits == [ok |-> FALSE, s |-> <<>>, n |-> 0]

\* The neighbourhood of a positive finite x that rounds to x, in a unit that
\* makes x, the half gaps to its neighbours and every decimal of at most 17
\* digits near x whole numbers: [n, X, below, above, closed, u2, u10], with n
\* the decimal exponent, X the number x, below and above the half gaps, and
\* closed telling whether a decimal at a half gap still rounds to x (it does
\* when the last binary digit of x is even)
Neighbourhood(x) ==
    Bind(DecimalExponent(x), LAMBDA n :
    Bind(Max(TopExponent(x) - 52, -1074), LAMBDA q :
    Bind(Min(q - 2, 0), LAMBDA u2 :
    Bind(Min(n - 17, 0), LAMBDA u10 :
    Bind(BigPow(<<10>>, 0 - u10), LAMBDA scale :
        [n |-> n,
         X |-> BigMul(BigShl(x.m, x.e - u2), scale),
         above |-> BigMul(BigShl(<<1>>, q - 1 - u2), scale),
         below |-> BigMul(BigShl(<<1>>, IF x.m = <<1>> /\ q > -1074 THEN q - 2 - u2 ELSE q - 1 - u2),
                          scale),
         closed |-> x.e > q,
         u2 |-> u2, u10 |-> u10])))))

\* whether a decimal at the distance d from x rounds to x, the half gap being h
Within(d, h, closed) == IF closed THEN BigCmp(d, h) <= 0 ELSE BigCmp(d, h) < 0

\* the k decimal digits s with s * 10^(n-k) nearest to x among those that
\* round to x, as [ok, s, n]: of the two decimals of k digits around x the
\* closer one, and the even one of two equally close
DigitsOfLength(nb, k) ==
    Bind(BigShl(BigPow(<<10>>, nb.n - k - nb.u10), 0 - nb.u2), LAMBDA T :
    Bind(BigDivMod(nb.X, T), LAMBDA d :
    Bind(Within(d.r, nb.below, nb.closed), LAMBDA lowOk :
    Bind(Within(BigSub(T, d.r), nb.above, nb.closed), LAMBDA upOk :
    Bind(BigCmp(BigAdd(d.r, d.r), T), LAMBDA c :
        IF lowOk /\ (~upOk \/ c < 0 \/ (c = 0 /\ BigBit(d.q, 0) = 0))
        THEN [ok |-> TRUE, s |-> BigToDigits(d.q), n |-> nb.n]
        ELSE IF upOk
        THEN IF BigAdd(d.q, <<1>>) = BigPow(<<10>>, k)
             THEN [ok |-> TRUE, s |-> BigToDigits(BigPow(<<10>>, k - 1)), n |-> nb.n + 1]
             ELSE [ok |-> TRUE, s |-> BigToDigits(BigAdd(d.q, <<1>>)), n |-> nb.n]
        ELSE NoDigits)))))

RECURSIVE ShortestDigits(_, _, _)
\* the digits of the least length between lo and hi that round to x: when
\* digits of one length do, digits of any greater length do
ShortestDigits(nb, lo, hi) ==
    IF lo = hi THEN DigitsOfLength(nb, lo)
    ELSE IF DigitsOfLength(nb, (lo + hi) \div 2).ok THEN ShortestDigits(nb, lo, (lo + hi) \div 2)
    ELSE ShortestDigits(nb, ((lo + hi) \div 2) + 1, hi)

RECURSIVE IntChars(_)
\* the decimal text of an integer
IntChars(i) == IF i < 0 THEN <<"-">> \o NatChars(0 - i) ELSE NatChars(i)

\* the text of the digits s with the decimal point after the first n of them
PlaceDigits(s, n) ==
    Bind(Len(s), LAMBDA k :
        IF k <= n /\ n <= 21 THEN s \o [i \in 1..(n - k) |-> "0"]
        ELSE IF 0 < n /\ n <= 21 THEN SubSeq(s, 1, n) \o <<".">> \o SubSeq(s, n + 1, k)
        ELSE IF -6 < n /\ n <= 0 THEN <<"0", ".">> \o [i \in 1..(0 - n) |-> "0"] \o s
        ELSE (IF k = 1 THEN s ELSE <<s[1], ".">> \o SubSeq(s, 2, k))
             \o <<"e">> \o (IF n - 1 < 0 THEN <<>> ELSE <<"+">>) \o IntChars(n - 1))

\* Number::toString(x), radix 10
NumberToStringOf(x) ==
    IF x.k = "nan" THEN <<"N", "a", "N">>
    ELSE IF IsZero(x) THEN <<"0">>
    ELSE IF x.neg THEN <<"-">> \o NumberToString(Negate(x))
    ELSE IF x.k = "infinite" THEN <<"I", "n", "f", "i", "n", "i", "t", "y">>
    ELSE Bind(ShortestDigits(Neighbourhood(x), 1, 17), LAMBDA d : PlaceDigits(d.s, d.n))

RECURSIVE StringLess(_, _)
\* whether the string a comes before the string b by code units
StringLess(a, b) ==
    IF b = <<>> THEN FALSE
    ELSE IF a = <<>> THEN TRUE
    ELSE IF Head(a) = Head(b) THEN StringLess(Tail(a), Tail(b))
    ELSE CodeOf(Head(a)) < CodeOf(Head(b))

\* the white space StringToNumber strips
StrWhiteSpace == {" ", "\t", "\n", VT, "\f", "\r"}
RECURSIVE DropLeadingSpace(_)
DropLeadingSpace(s) == IF s # <<>> /\ Head(s) \in StrWhiteSpace THEN DropLeadingSpace(Tail(s)) ELSE s
RECURSIVE DropTrailingSpace(_)
DropTrailingSpace(s) ==
    IF s # <<>> /\ s[Len(s)] \in StrWhiteSpace THEN DropTrailingSpace(SubSeq(s, 1, Len(s) - 1)) ELSE s

K_Infinity == <<"I", "n", "f", "i", "n", "i", "t", "y">>

IsRadixText(ds, radix) == ds # <<>> /\ \A i \in 1..Len(ds) : RadixDigit(ds[i]) < radix

\* the radix a prefix 0x, 0o or 0b announces, or 0
PrefixRadix(s) ==
    IF Len(s) < 2 \/ s[1] # "0" THEN 0
    ELSE IF s[2] \in {"x", "X"} THEN 16
    ELSE IF s[2] \in {"o", "O"} THEN 8
    ELSE IF s[2] \in {"b", "B"} THEN 2
    ELSE 0

\* the length of the run of decimal digits at the head of s
DigitRun(s) == RunEnd(s, 1, Digit) - 1

\* a decimal exponent from its digits, held at 100000 when it is greater
ExponentValue(ds) ==
    Bind(SubSeq(ds, RunEnd(ds, 1, {"0"}), Len(ds)), LAMBDA t :
        IF Len(t) > 6 THEN 100000 ELSE Min(100000, DigitsValue(t)))

\* the exponent part of a decimal literal: [ok, value], ok for no part at all
ExponentPart(s) ==
    IF s = <<>> THEN [ok |-> TRUE, value |-> 0]
    ELSE IF s[1] \notin {"e", "E"} THEN [ok |-> FALSE, value |-> 0]
    ELSE Bind(IF Len(s) >= 2 /\ s[2] \in {"+", "-"} THEN 3 ELSE 2, LAMBDA from :
         Bind(SubSeq(s, from, Len(s)), LAMBDA ds :
             IF ds = <<>> \/ DigitRun(ds) # Len(ds) THEN [ok |-> FALSE, value |-> 0]
             ELSE [ok |-> TRUE,
                   value |-> IF from = 3 /\ s[2] = "-" THEN 0 - ExponentValue(ds)
                             ELSE ExponentValue(ds)]))

\* the Number of the digits ds times 10^p; far outside the range of the
\* Numbers the result is known without the arithmetic
DecimalValue(neg, ds, p) ==
    Bind(BigFromRadix(ds, 10), LAMBDA c :
        IF c = <<>> THEN Zero(neg)
        ELSE IF Len(ds) + p < -325 THEN Zero(neg)
        ELSE IF Len(BigToDigits(c)) + p > 310 THEN Infinite(neg)
        ELSE FromDecimal(neg, c, p))

\* StrUnsignedDecimalLiteral
UnsignedDecimal(neg, s) ==
    IF s = K_Infinity THEN Infinite(neg)
    ELSE Bind(DigitRun(s), LAMBDA n :
         Bind(IF n < Len(s) /\ s[n + 1] = "." THEN DigitRun(SubSeq(s, n + 2, Len(s))) ELSE 0, LAMBDA f :
         Bind(IF n < Len(s) /\ s[n + 1] = "." THEN n + 1 + f ELSE n, LAMBDA used :
         Bind(ExponentPart(SubSeq(s, used + 1, Len(s))), LAMBDA x :
             IF n + f = 0 \/ ~x.ok THEN NaN
             ELSE DecimalValue(neg, SubSeq(s, 1, n) \o SubSeq(s, n + 2, n + 1 + f), x.value - f)))))

\* StringToNumber(s)
StringToNumberOf(str) ==
    Bind(DropTrailingSpace(DropLeadingSpace(str)), LAMBDA s :
        IF s = <<>> THEN Zero(FALSE)
        ELSE IF PrefixRadix(s) # 0
            THEN IF IsRadixText(SubSeq(s, 3, Len(s)), PrefixRadix(s))
                 THEN Round(FALSE, BigFromRadix(SubSeq(s, 3, Len(s)), PrefixRadix(s)), 0)
                 ELSE NaN
        ELSE IF s[1] = "-" THEN UnsignedDecimal(TRUE, Tail(s))
        ELSE IF s[1] = "+" THEN UnsignedDecimal(FALSE, Tail(s))
        ELSE UnsignedDecimal(FALSE, s))

\* the value of a numeric literal: its digits in the radix of its prefix, in
\* radix 8 after a leading zero that only octal digits follow, decimal otherwise
LiteralValueOf(raw) ==
    IF PrefixRadix(raw) # 0
    THEN Round(FALSE, BigFromRadix(SubSeq(raw, 3, Len(raw)), PrefixRadix(raw)), 0)
    ELSE IF IsLegacyOctal(raw) THEN Round(FALSE, BigFromRadix(raw, 8), 0)
    ELSE IF Len(raw) <= 9 /\ DigitRun(raw) = Len(raw) THEN FromNat(DigitsValue(raw))
    ELSE UnsignedDecimal(FALSE, raw)

\* x % y: the remainder of the division truncated towards zero, which is exact
RemainderOf(x, y) ==
    IF x.k = "nan" \/ y.k = "nan" \/ x.k = "infinite" \/ (y.k = "finite" /\ IsZero(y)) THEN NaN
    ELSE IF y.k = "infinite" \/ IsZero(x) THEN x
    ELSE Bind(Min(x.e, y.e), LAMBDA e :
         Bind(BigDivMod(BigShl(x.m, x.e - e), BigShl(y.m, y.e - e)).r, LAMBDA r :
             IF r = <<>> THEN Zero(x.neg) ELSE Round(x.neg, r, e)))

\* the constants of Math: the doubles nearest to the numbers they name
MathE == Finite(FALSE, <<22377, 5672, 31786, 173>>, -51)
MathLN10 == Finite(FALSE, <<10891, 15285, 22371, 73>>, -50)
MathLN2 == Finite(FALSE, <<14831, 32244, 14603, 177>>, -53)
MathLOG10E == Finite(FALSE, <<29319, 5414, 5878, 111>>, -53)
MathLOG2E == Finite(FALSE, <<16767, 25899, 10894, 92>>, -51)
MathPI == Finite(FALSE, <<1443, 21777, 4349, 25>>, -48)
MathSQRT1_2 == Finite(FALSE, <<15309, 19710, 633, 181>>, -53)
MathSQRT2 == Finite(FALSE, <<15309, 19710, 633, 181>>, -52)

(***************************************************************************)
(* JavaScript values.  A number is a double of the library above; a        *)
(* function is one of the functions of Math, held by its name; the one     *)
(* object is Math.                                                         *)
(***************************************************************************)
Value(t, n, s, b) == [t |-> t, n |-> n, s |-> s, b |-> b]
VNumber(x) == Value("number", x, <<>>, FALSE)
VNaN == VNumber(NaN)
VString(s) == Value("string", Zero(FALSE), s, FALSE)
VBoolean(b) == Value("boolean", Zero(FALSE), <<>>, b)
VFunction(name) == Value("function", Zero(FALSE), name, FALSE)
VMath == Value("object", Zero(FALSE), K_Math, FALSE)
VUndefined == Value("undefined", Zero(FALSE), <<>>, FALSE)
VNull == Value("null", Zero(FALSE), <<>>, FALSE)
\* an exception thrown by the evaluation
VThrow == Value("throw", Zero(FALSE), <<>>, FALSE)
\* a result the model does not compute
VUnmodelled == Value("unmodelled", Zero(FALSE), <<>>, FALSE)
Abrupt == {"throw", "unmodelled"}

IsNaN(v) == v.t = "number" /\ v.n.k = "nan"

\* a binding of the constant evaluator's scope: the literal's value, or the
\* string `Math.<property>`
ScopeNumber(n) == [t |-> "number", n |-> n, s |-> <<>>]
ScopeString(s) == [t |-> "string", n |-> Zero(FALSE), s |-> s]
EmptyScope == [x \in {} |-> ScopeNumber(Zero(FALSE))]
\* scope.set(name, value)
ScopeSet(scope, name, value) ==
    [x \in DOMAIN scope \cup {name} |-> IF x = name THEN value ELSE scope[x]]
\* scope.has(name)
ScopeHas(scope, name) == name \in DOMAIN scope

\* the digit of the value d < 16, in lower case
LowerHex(d) == IF d < 10 THEN DigitSeq[d + 1] ELSE HexSeq[d - 9]

\* the text JSON.stringify writes for one character of a string: the other
\* characters before the space are written \u00xx
QuoteChar(c) ==
    CASE c \in {"\"", "\\"} -> <<"\\", c>>
      [] c = "\n" -> <<"\\", "n">>
      [] c = "\t" -> <<"\\", "t">>
      [] c = "\r" -> <<"\\", "r">>
      [] c = "\f" -> <<"\\", "f">>
      [] c = BS -> <<"\\", "b">>
      [] c \in Range(ControlSeq) ->
            <<"\\", "u", "0", "0", LowerHex(CodeOf(c) \div 16), LowerHex(CodeOf(c) % 16)>>
      [] OTHER -> <<c>>

\* JSON.stringify of a number or a string: null for a number that is not finite
JSONStringify(v) ==
    IF v.t = "number" THEN IF v.n.k = "finite" THEN NumberToString(v.n) ELSE K_null
    ELSE <<"\"">> \o Flatten([i \in 1..Len(v.s) |-> QuoteChar(v.s[i])]) \o <<"\"">>

(***************************************************************************)
(* buildExpression(node, scope): the expression text, or null.             *)
(***************************************************************************)
Built(s) == [null |-> FALSE, s |-> s]
BuiltNull == [null |-> TRUE, s |-> <<>>]

IsMathRef(v) == v.t = "string" /\ StartsWith(v.s, K_MathDot)

RECURSIVE buildExpression(_, _)
buildExpression(node, scope) ==
    IF node = Null THEN BuiltNull
    ELSE CASE node.type = "NumericLiteral" -> Built(NumberToString(node.value))
      [] node.type = "StringLiteral" -> Built(<<"\"">> \o node.value \o <<"\"">>)
      [] node.type = "Identifier" ->
            IF ScopeHas(scope, node.name)
            THEN LET value == scope[node.name]
                 IN  Built(IF IsMathRef(value) THEN value.s ELSE JSONStringify(value))
            ELSE BuiltNull
      [] node.type = "BinaryExpression" ->
            LET left == buildExpression(node.left, scope)
                right == buildExpression(node.right, scope)
            IN  IF left.null \/ right.null THEN BuiltNull
                ELSE Built(<<"(">> \o left.s \o <<" ">> \o node.operator \o <<" ">> \o right.s \o <<")">>)
      [] node.type = "CallExpression" ->
            IF node.callee.type = "Identifier" /\ ScopeHas(scope, node.callee.name)
               /\ IsMathRef(scope[node.callee.name])
            THEN LET args == [i \in 1..Len(node.arguments) |-> buildExpression(node.arguments[i], scope)]
                 IN  IF \E i \in 1..Len(args) : args[i].null THEN BuiltNull
                     ELSE Built(scope[node.callee.name].s \o <<"(">>
                                \o Join([i \in 1..Len(args) |-> args[i].s], <<",", " ">>) \o <<")">>)
            ELSE BuiltNull
      [] node.type = "UnaryExpression" ->
            LET argument == buildExpression(node.argument, scope)
            IN  IF argument.null THEN BuiltNull ELSE Built(node.operator \o argument.s)
      [] OTHER -> BuiltNull

(***************************************************************************)
(* Function(`"use strict"; return (${expression})`)(): the text is parsed  *)
(* as the body of a function in strict code and the operand of its return  *)
(* statement is evaluated in the global scope.  A syntax error and a       *)
(* run-time error both end in VThrow.                                      *)
(***************************************************************************)
K_log == <<"l", "o", "g">>
K_abs == <<"a", "b", "s">>
K_max == <<"m", "a", "x">>
K_min == <<"m", "i", "n">>
K_floor == <<"f", "l", "o", "o", "r">>
K_ceil == <<"c", "e", "i", "l">>
K_trunc == <<"t", "r", "u", "n", "c">>
K_round == <<"r", "o", "u", "n", "d">>
K_sign == <<"s", "i", "g", "n">>
K_sqrt == <<"s", "q", "r", "t">>
K_fround == <<"f", "r", "o", "u", "n", "d">>
K_pow == <<"p", "o", "w">>
K_PI == <<"P", "I">>
K_undefined == <<"u", "n", "d", "e", "f", "i", "n", "e", "d">>
K_NaN == <<"N", "a", "N">>
K_length == <<"l", "e", "n", "g", "t", "h">>
\* the functions of Math that take one number and keep the sign of a zero
ZeroKeeping ==
    {<<"s", "i", "n">>, <<"t", "a", "n">>, <<"a", "s", "i", "n">>, <<"a", "t", "a", "n">>, <<"s", "i", "n", "h">>, <<"t", "a", "n", "h">>, <<"a", "s", "i", "n", "h">>, <<"a", "t", "a", "n", "h">>,
     <<"e", "x", "p", "m", "1">>, <<"l", "o", "g", "1", "p">>, <<"c", "b", "r", "t">>}
\* those that are 1 at zero
OneAtZero == {<<"c", "o", "s">>, <<"c", "o", "s", "h">>, <<"e", "x", "p">>}
\* those that are 0 at 1
ZeroAtOne == {<<"l", "o", "g", "2">>, <<"l", "o", "g", "1", "0">>, <<"a", "c", "o", "s">>, <<"a", "c", "o", "s", "h">>}
\* the functions of Math
MathFunctions ==
    {K_abs, K_ceil, K_floor, K_fround, K_log, K_max, K_min, K_pow, K_round, K_sign, K_sqrt, K_trunc,
     <<"a", "t", "a", "n", "2">>, <<"c", "l", "z", "3", "2">>, <<"h", "y", "p", "o", "t">>, <<"i", "m", "u", "l">>, <<"r", "a", "n", "d", "o", "m">>}
    \cup ZeroKeeping \cup OneAtZero \cup ZeroAtOne
\* the numbers of Math
MathConstants ==
    {<<"E">>, <<"L", "N", "1", "0">>, <<"L", "N", "2">>, <<"L", "O", "G", "1", "0", "E">>, <<"L", "O", "G", "2", "E">>, K_PI, <<"S", "Q", "R", "T", "1", "_", "2">>, <<"S", "Q", "R", "T", "2">>}
MathConstant(name) ==
    CASE name = <<"E">> -> MathE
      [] name = <<"L", "N", "1", "0">> -> MathLN10
      [] name = <<"L", "N", "2">> -> MathLN2
      [] name = <<"L", "O", "G", "1", "0", "E">> -> MathLOG10E
      [] name = <<"L", "O", "G", "2", "E">> -> MathLOG2E
      [] name = K_PI -> MathPI
      [] name = <<"S", "Q", "R", "T", "1", "_", "2">> -> MathSQRT1_2
      [] name = <<"S", "Q", "R", "T", "2">> -> MathSQRT2
\* the members Math inherits, and those only some versions of the engine have
OtherMembers ==
    {<<"c", "o", "n", "s", "t", "r", "u", "c", "t", "o", "r">>, <<"t", "o", "S", "t", "r", "i", "n", "g">>, <<"t", "o", "L", "o", "c", "a", "l", "e", "S", "t", "r", "i", "n", "g">>, <<"v", "a", "l", "u", "e", "O", "f">>, <<"h", "a", "s", "O", "w", "n", "P", "r", "o", "p", "e", "r", "t", "y">>,
     <<"i", "s", "P", "r", "o", "t", "o", "t", "y", "p", "e", "O", "f">>, <<"p", "r", "o", "p", "e", "r", "t", "y", "I", "s", "E", "n", "u", "m", "e", "r", "a", "b", "l", "e">>, <<"_", "_", "p", "r", "o", "t", "o", "_", "_">>, <<"_", "_", "d", "e", "f", "i", "n", "e", "G", "e", "t", "t", "e", "r", "_", "_">>,
     <<"_", "_", "d", "e", "f", "i", "n", "e", "S", "e", "t", "t", "e", "r", "_", "_">>, <<"_", "_", "l", "o", "o", "k", "u", "p", "G", "e", "t", "t", "e", "r", "_", "_">>, <<"_", "_", "l", "o", "o", "k", "u", "p", "S", "e", "t", "t", "e", "r", "_", "_">>, <<"f", "1", "6", "r", "o", "u", "n", "d">>,
     <<"s", "u", "m", "P", "r", "e", "c", "i", "s", "e">>}
\* Function.prototype.toString of a built-in function
FunctionText(name) == <<"f", "u", "n", "c", "t", "i", "o", "n", " ">> \o name \o <<"(", ")", " ", "{", " ", "[", "n", "a", "t", "i", "v", "e", " ", "c", "o", "d", "e", "]", " ", "}">>

\* ToPrimitive: a function and Math turn into their texts
ToPrimitive(v) ==
    CASE v.t = "function" -> VString(FunctionText(v.s))
      [] v.t = "object" -> VString(<<"[", "o", "b", "j", "e", "c", "t", " ", "M", "a", "t", "h", "]">>)
      [] OTHER -> v

RECURSIVE ToNumber(_)
\* ToNumber of a primitive value
ToNumber(p) ==
    CASE p.t = "number" -> p.n
      [] p.t = "string" -> StringToNumber(p.s)
      [] p.t = "boolean" -> IF p.b THEN One ELSE Zero(FALSE)
      [] p.t = "null" -> Zero(FALSE)
      [] OTHER -> NaN

RECURSIVE ToStringOf(_)
\* ToString of a primitive value
ToStringOf(p) ==
    CASE p.t = "number" -> NumberToString(p.n)
      [] p.t = "string" -> p.s
      [] p.t = "boolean" -> IF p.b THEN K_true ELSE K_false
      [] p.t = "null" -> K_null
      [] OTHER -> K_undefined

\* ToBoolean
Truthy(v) ==
    CASE v.t = "number" -> v.n.k # "nan" /\ ~IsZero(v.n)
      [] v.t = "string" -> v.s # <<>>
      [] v.t = "boolean" -> v.b
      [] v.t \in {"undefined", "null"} -> FALSE
      [] OTHER -> TRUE

\* the number the i-th argument of a call gives a function of Math
ArgNumber(args, i) == IF i > Len(args) THEN NaN ELSE ToNumber(ToPrimitive(args[i]))

RECURSIVE FoldNumbers(_, _, _, _)
\* Math.max and Math.min over the arguments from the i-th on
FoldNumbers(f, args, i, acc) ==
    IF i > Len(args) THEN acc
    ELSE FoldNumbers(f, args, i + 1,
                     IF f = K_max THEN MaxOf(acc, ArgNumber(args, i)) ELSE MinOf(acc, ArgNumber(args, i)))

\* the power of an integer: a zero keeps its sign under an odd exponent
IntegerPower(x, n) ==
    Bind(BigPow(Whole(x), n), LAMBDA p :
        IF p = <<>> THEN VNumber(Zero(x.neg /\ n % 2 = 1))
        ELSE IF BigBitLen(p) > 1024 \/ BigBitLen(p) - BigTrailingZeros(p) > 53 THEN VUnmodelled
        ELSE VNumber(Round(x.neg /\ n % 2 = 1, p, 0)))

RECURSIVE Pow(_, _)
\* Math.pow, where the result is exact
Pow(x, y) ==
    IF y.k = "nan" THEN VNaN
    ELSE IF IsZero(y) THEN VNumber(One)
    ELSE IF x.k = "nan" THEN VNaN
    ELSE IF y = One THEN VNumber(x)
    ELSE IF x.k = "finite" /\ y.k = "finite" /\ IsInteger(x) /\ IsInteger(y) /\ ~y.neg
            /\ BigBitLen(Whole(y)) <= 10
        THEN IntegerPower(x, BigToNat(Whole(y)))
    ELSE VUnmodelled

RECURSIVE MathApply(_, _)
\* a function of Math applied to the values of the arguments
MathApply(f, args) ==
    Bind(ArgNumber(args, 1), LAMBDA x :
    CASE f = K_abs -> VNumber(AbsOf(x))
      [] f = K_floor -> VNumber(Floor(x))
      [] f = K_ceil -> VNumber(Ceil(x))
      [] f = K_trunc -> VNumber(Trunc(x))
      [] f = K_round -> VNumber(RoundHalfUp(x))
      [] f = K_sign -> VNumber(Sign(x))
      [] f = K_sqrt -> VNumber(Sqrt(x))
      [] f = K_fround -> VNumber(Fround(x))
      [] f = K_log -> VNumber(Log(x))
      [] f = K_max -> VNumber(FoldNumbers(f, args, 1, Infinite(TRUE)))
      [] f = K_min -> VNumber(FoldNumbers(f, args, 1, Infinite(FALSE)))
      [] f = K_pow -> Pow(x, ArgNumber(args, 2))
      [] f \in ZeroKeeping \cup OneAtZero \cup ZeroAtOne ->
            IF x.k = "nan" THEN VNaN
            ELSE IF f \in ZeroKeeping /\ IsZero(x) THEN VNumber(x)
            ELSE IF f \in OneAtZero /\ IsZero(x) THEN VNumber(One)
            ELSE IF f \in ZeroAtOne /\ x = One THEN VNumber(Zero(FALSE))
            ELSE VUnmodelled
      [] OTHER -> VUnmodelled)

\* Math[key]
MathMember(key) ==
    IF key \in MathFunctions THEN VFunction(key)
    ELSE IF key \in MathConstants THEN VNumber(MathConstant(key))
    ELSE IF key \in OtherMembers THEN VUnmodelled
    ELSE VUndefined

\* object[key] for a value and a property key
Member(o, key) ==
    CASE o.t \in {"undefined", "null"} -> VThrow
      [] o.t = "object" -> MathMember(key)
      [] o.t = "string" /\ key = K_length -> VNumber(FromNat(Len(o.s)))
      [] OTHER -> VUnmodelled

Comparisons == {<<">">>, <<"<">>, <<">", "=">>, <<"<", "=">>}
Equalities == {<<"=", "=">>, <<"=", "=", "=">>}
Inequalities == {<<"!", "=">>, <<"!", "=", "=">>}

\* a < b by the order of the operator op
Compare(op, less, greater, equal) ==
    CASE op = <<">">> -> greater
      [] op = <<"<">> -> less
      [] op = <<">", "=">> -> greater \/ equal
      [] op = <<"<", "=">> -> less \/ equal

RECURSIVE Relational(_, _, _)
\* a relational operator on two primitive values
Relational(op, lp, rp) ==
    IF lp.t = "string" /\ rp.t = "string" THEN
        IF Range(lp.s) \cup Range(rp.s) \subseteq KnownChars
        THEN VBoolean(Compare(op, StringLess(lp.s, rp.s), StringLess(rp.s, lp.s), lp.s = rp.s))
        ELSE VUnmodelled
    ELSE Bind(Order(ToNumber(lp), ToNumber(rp)), LAMBDA o :
         VBoolean(Compare(op, o = "less", o = "greater", o = "equal")))

\* l === r
StrictEquals(l, r) ==
    /\ l.t = r.t
    /\ CASE l.t = "number" -> Order(l.n, r.n) = "equal"
         [] l.t = "boolean" -> l.b = r.b
         [] OTHER -> l.s = r.s

\* the value the operand of == is compared by, next to an operand that is
\* neither an object nor undefined nor null
Comparand(v) ==
    IF v.t = "boolean" THEN VNumber(ToNumber(v)) ELSE ToPrimitive(v)

RECURSIVE LooseEquals(_, _)
\* l == r
LooseEquals(l, r) ==
    IF l.t = r.t \/ {l.t, r.t} \subseteq {"function", "object"} THEN StrictEquals(l, r)
    ELSE IF l.t \in {"undefined", "null"} \/ r.t \in {"undefined", "null"}
        THEN l.t \in {"undefined", "null"} /\ r.t \in {"undefined", "null"}
    ELSE Bind(Comparand(l), LAMBDA a : Bind(Comparand(r), LAMBDA b :
         IF a.t = b.t THEN StrictEquals(a, b)
         ELSE Order(ToNumber(a), ToNumber(b)) = "equal"))

\* ToUint32 of a Number, as its two halves of 16 bits: the whole part of the
\* number modulo 2^32
Word(hi, lo) == [hi |-> hi, lo |-> lo]
Low32(m) ==
    Word((BigDigit(m, 2) \div 2) + (BigDigit(m, 3) % 4) * 16384,
         BigDigit(m, 1) + (BigDigit(m, 2) % 2) * 32768)
Negate32(w) ==
    Word((65535 - w.hi + (IF w.lo = 0 THEN 1 ELSE 0)) % 65536, (65536 - w.lo) % 65536)
ToUint32(x) ==
    IF x.k # "finite" THEN Word(0, 0)
    ELSE IF x.e >= 32 THEN Word(0, 0)
    ELSE IF x.neg THEN Negate32(Low32(Whole(x)))
    ELSE Low32(Whole(x))

\* the Number of 32 bits taken without a sign, and taken as a signed integer
Big32(w) == BigAdd(BigShl(BigFromNat(w.hi), 16), BigFromNat(w.lo))
FromUint32(w) == Exact(FALSE, Big32(w), 0)
FromInt32(w) == IF w.hi >= 32768 THEN Exact(TRUE, Big32(Negate32(w)), 0) ELSE FromUint32(w)

RECURSIVE BitOp(_, _, _, _)
\* the operator & | ^ on the lowest n bits of a and b
BitOp(op, a, b, n) ==
    IF n = 0 THEN 0
    ELSE 2 * BitOp(op, a \div 2, b \div 2, n - 1)
         + (CASE op = <<"&">> -> (a % 2) * (b % 2)
              [] op = <<"|">> -> IF (a % 2) + (b % 2) > 0 THEN 1 ELSE 0
              [] op = <<"^">> -> (a + b) % 2)
Bitwise(op, a, b) == Word(BitOp(op, a.hi, b.hi, 16), BitOp(op, a.lo, b.lo, 16))

\* w << n, w >> n and w >>> n for n < 32: >> keeps the sign, so that a negative
\* integer is divided and rounded down
Shift(op, w, n) ==
    CASE op = <<"<", "<">> -> FromInt32(Low32(BigShl(Big32(w), n)))
      [] op = <<">", ">", ">">> -> FromUint32(Low32(BigShr(Big32(w), n)))
      [] op = <<">", ">">> ->
            IF w.hi >= 32768
            THEN Exact(TRUE, BigShr(BigAdd(Big32(Negate32(w)), BigSub(BigShl(<<1>>, n), <<1>>)), n), 0)
            ELSE FromUint32(Low32(BigShr(Big32(w), n)))

RECURSIVE BinaryOp(_, _, _)
BinaryOp(op, l, r) ==
    IF l.t \in Abrupt THEN l
    ELSE IF r.t \in Abrupt THEN r
    ELSE Bind(ToPrimitive(l), LAMBDA lp : Bind(ToPrimitive(r), LAMBDA rp :
         CASE op = <<"+">> ->
                IF lp.t = "string" \/ rp.t = "string"
                THEN VString(ToStringOf(lp) \o ToStringOf(rp))
                ELSE VNumber(Add(ToNumber(lp), ToNumber(rp)))
           [] op = <<"-">> -> VNumber(Subtract(ToNumber(lp), ToNumber(rp)))
           [] op = <<"*">> -> VNumber(Multiply(ToNumber(lp), ToNumber(rp)))
           [] op = <<"/">> -> VNumber(Divide(ToNumber(lp), ToNumber(rp)))
           [] op = <<"%">> -> VNumber(Remainder(ToNumber(lp), ToNumber(rp)))
           [] op \in Comparisons -> Relational(op, lp, rp)
           [] op = <<"=", "=", "=">> -> VBoolean(StrictEquals(l, r))
           [] op = <<"!", "=", "=">> -> VBoolean(~StrictEquals(l, r))
           [] op = <<"=", "=">> -> VBoolean(LooseEquals(l, r))
           [] op = <<"!", "=">> -> VBoolean(~LooseEquals(l, r))
           [] op = <<"*", "*">> -> Pow(ToNumber(lp), ToNumber(rp))
           [] op \in {<<"&">>, <<"|">>, <<"^">>} ->
                VNumber(FromInt32(Bitwise(op, ToUint32(ToNumber(lp)), ToUint32(ToNumber(rp)))))
           [] op \in {<<"<", "<">>, <<">", ">">>, <<">", ">", ">">>} ->
                VNumber(Shift(op, ToUint32(ToNumber(lp)), ToUint32(ToNumber(rp)).lo % 32))
           [] op = K_in -> IF r.t \in {"function", "object"} THEN VUnmodelled ELSE VThrow
           [] op = K_instanceof ->
                IF r.t # "function" THEN VThrow
                ELSE IF l.t \in {"function", "object"} THEN VThrow
                ELSE VBoolean(FALSE)
           [] OTHER -> VUnmodelled))

K_object == <<"o", "b", "j", "e", "c", "t">>
\* typeof v
TypeOf(v) ==
    CASE v.t = "number" -> <<"n", "u", "m", "b", "e", "r">>
      [] v.t = "string" -> <<"s", "t", "r", "i", "n", "g">>
      [] v.t = "boolean" -> <<"b", "o", "o", "l", "e", "a", "n">>
      [] v.t = "undefined" -> K_undefined
      [] v.t = "function" -> K_function
      [] v.t \in {"null", "object"} -> K_object

RECURSIVE UnaryOp(_, _)
UnaryOp(op, v) ==
    IF v.t \in Abrupt THEN v
    ELSE CASE op = <<"!">> -> VBoolean(~Truthy(v))
           [] op = <<"-">> -> VNumber(Negate(ToNumber(ToPrimitive(v))))
           [] op = <<"+">> -> VNumber(ToNumber(ToPrimitive(v)))
           [] op = <<"~">> ->
                VNumber(FromInt32(Bitwise(<<"^">>, ToUint32(ToNumber(ToPrimitive(v))), Word(65535, 65535))))
           [] op = K_void -> VUndefined
           [] op = K_typeof -> VString(TypeOf(v))
           [] OTHER -> VUnmodelled

\* the first of the values that ends the evaluation, or the value otherwise
FirstAbrupt(vs, otherwise) ==
    IF \E i \in 1..Len(vs) : vs[i].t \in Abrupt
    THEN vs[CHOOSE i \in 1..Len(vs) : vs[i].t \in Abrupt /\ \A j \in 1..(i - 1) : vs[j].t \notin Abrupt]
    ELSE otherwise

\* Whether the global scope binds no such name: the engine and its host bind
\* names of three characters and more, which ones by their version.
Unbound(name) == Len(name) < 3

\* the value of a name of the global scope: a ReferenceError for a name that
\* is not bound
Global(name) ==
    IF name = K_Math THEN VMath
    ELSE IF name = K_undefined THEN VUndefined
    ELSE IF name = K_NaN THEN VNaN
    ELSE IF name = K_Infinity THEN VNumber(Infinite(FALSE))
    ELSE IF Unbound(name) THEN VThrow
    ELSE VUnmodelled

\* the value of a parsed expression in the global scope, in strict code
EvaluateOf(node) ==
    CASE node.type = "NumericLiteral" -> VNumber(node.value)
      [] node.type = "StringLiteral" -> VString(node.value)
      [] node.type = "BooleanLiteral" -> VBoolean(node.value)
      [] node.type = "NullLiteral" -> VNull
      [] node.type = "ThisExpression" -> VUndefined
      [] node.type = "Identifier" -> Global(node.name)
      [] node.type = "MemberExpression" ->
            Bind(Evaluate(node.object), LAMBDA o :
            IF o.t \in Abrupt THEN o
            ELSE IF ~node.computed THEN Member(o, node.property.name)
            ELSE Bind(Evaluate(node.property), LAMBDA p :
                 IF p.t \in Abrupt THEN p ELSE Member(o, ToStringOf(ToPrimitive(p)))))
      [] node.type = "CallExpression" ->
            Bind(Evaluate(node.callee), LAMBDA f :
            Bind([i \in 1..Len(node.arguments) |-> Evaluate(node.arguments[i])], LAMBDA args :
                IF f.t \in Abrupt THEN f
                ELSE FirstAbrupt(args, IF f.t # "function" THEN VThrow ELSE MathApply(f.s, args))))
      [] node.type = "BinaryExpression" ->
            BinaryOp(node.operator, Evaluate(node.left), Evaluate(node.right))
      [] node.type = "LogicalExpression" ->
            Bind(Evaluate(node.left), LAMBDA l :
            IF l.t \in Abrupt THEN l
            ELSE IF Truthy(l) = (node.operator = <<"&", "&">>) THEN Evaluate(node.right)
            ELSE l)
      [] node.type = "UnaryExpression" ->
            IF node.operator = K_typeof /\ node.argument.type = "Identifier"
               /\ Unbound(node.argument.name)
            THEN VString(K_undefined)
            ELSE UnaryOp(node.operator, Evaluate(node.argument))
      [] node.type = "ConditionalExpression" ->
            Bind(Evaluate(node.test), LAMBDA c :
            IF c.t \in Abrupt THEN c
            ELSE IF Truthy(c) THEN Evaluate(node.consequent)
            ELSE Evaluate(node.alternate))
      [] node.type = "SequenceExpression" ->
            Bind([i \in 1..Len(node.expressions) |-> Evaluate(node.expressions[i])], LAMBDA vs :
            FirstAbrupt(vs, vs[Len(vs)]))
      [] node.type = "NewExpression" ->
            Bind(Evaluate(node.callee), LAMBDA f :
            IF f.t \in Abrupt THEN f
            ELSE FirstAbrupt([i \in 1..Len(node.arguments) |-> Evaluate(node.arguments[i])], VThrow))
      [] node.type = "UpdateExpression" ->
            IF node.argument.type = "Identifier" /\ Unbound(node.argument.name) THEN VThrow
            ELSE VUnmodelled
      [] node.type = "AssignmentExpression" ->
            IF node.left.type # "Identifier" THEN VUnmodelled
            ELSE IF node.operator # <<"=">>
                THEN IF Unbound(node.left.name) THEN VThrow ELSE VUnmodelled
            ELSE Bind(Evaluate(node.right), LAMBDA r :
                 IF r.t \in Abrupt THEN r
                 ELSE IF Unbound(node.left.name) \/ node.left.name \in {K_undefined, K_NaN, K_Infinity}
                     THEN VThrow
                 ELSE VUnmodelled)
      [] OTHER -> VUnmodelled

\* whether a statement declares a name
Declares(statement) ==
    \E i \in 1..Len(PreOrder(statement)) :
        PreOrder(statement)[i].type \in {"VariableDeclaration", "FunctionDeclaration"}

K_BodyStart == <<"\"", "u", "s", "e", " ", "s", "t", "r", "i", "c", "t", "\"", ";", " ", "r", "e", "t", "u", "r", "n", " ", "(">>

JsEvalOf(expression) ==
    Bind(Tokenize(K_BodyStart \o expression \o <<")">>), LAMBDA t :
    Bind(ParseStmts(t, 1, NoContext, <<>>), LAMBDA p :
    CASE ~p.ok -> IF p.unmodelled \/ p.late THEN VUnmodelled ELSE VThrow
      [] p.ok /\ p.next # Len(t) + 1 -> VThrow
      [] OTHER ->
            Bind(Verdict(p.node, t, TRUE), LAMBDA v :
            CASE v = "error" -> VThrow
              [] v = "unmodelled" -> VUnmodelled
              [] OTHER ->
                    IF \E i \in 3..Len(p.node) : Declares(p.node[i]) THEN VUnmodelled
                    ELSE Evaluate(p.node[2].argument))))

\* evaluateConditionExpression(node, scope): a boolean, or null; unmodelled
\* where the model does not compute the value of the expression
Evaluated(b) == [null |-> FALSE, value |-> b, unmodelled |-> FALSE]
EvaluatedNull == [null |-> TRUE, value |-> FALSE, unmodelled |-> FALSE]
EvaluatedUnmodelled == [null |-> TRUE, value |-> FALSE, unmodelled |-> TRUE]

\* the evaluation with a numeric result taken by its truthiness
TruthyResult(node, scope) ==
    Bind(buildExpression(node, scope), LAMBDA expression :
    IF expression.null THEN EvaluatedNull
    ELSE Bind(JsEval(expression.s), LAMBDA result :
         IF result.t = "boolean" THEN Evaluated(result.b)
         ELSE IF result.t = "number" THEN Evaluated(Truthy(result))
         ELSE IF result.t = "unmodelled" THEN EvaluatedUnmodelled
         ELSE EvaluatedNull))

evaluateConditionExpressionOf(node, scope) ==
    Bind(buildExpression(node, scope), LAMBDA expression :
    IF expression.null THEN EvaluatedNull
    ELSE Bind(JsEval(expression.s), LAMBDA result :
         IF result.t = "boolean" THEN Evaluated(result.b)
         ELSE IF result.t = "number" THEN Evaluated(IsPositive(result.n))
         ELSE IF result.t = "unmodelled" THEN EvaluatedUnmodelled
         ELSE EvaluatedNull))

(***************************************************************************)
(* evaluateConstantConditions(ast, content).  The scope is one Map handed  *)
(* down by reference, so the traversal is a left-to-right pass over the    *)
(* nodes in visiting order with one scope.                                 *)
(***************************************************************************)
\* the template literal `Math.${propName}`
MathRefOf(init) ==
    K_MathDot \o (IF init.property.type = "Identifier" THEN init.property.name ELSE K_undefined)

\* the body of declarations.forEach in the constant-condition traversal
TrackDeclaration(scope, declaration) ==
    IF declaration.init # Null /\ declaration.id # Null /\ NameOf(declaration.id) # Undefined THEN
        IF declaration.init.type = "MemberExpression" THEN
            IF NameOf(declaration.init.object) = K_Math
            THEN ScopeSet(scope, declaration.id.name, ScopeString(MathRefOf(declaration.init)))
            ELSE scope
        ELSE IF declaration.init.type = "NumericLiteral"
            THEN ScopeSet(scope, declaration.id.name, ScopeNumber(declaration.init.value))
        ELSE IF declaration.init.type = "StringLiteral"
            THEN ScopeSet(scope, declaration.id.name, ScopeString(declaration.init.value))
        ELSE scope
    ELSE scope

RECURSIVE TrackDeclarations(_, _)
TrackDeclarations(scope, declarations) ==
    IF declarations = <<>> THEN scope
    ELSE TrackDeclarations(TrackDeclaration(scope, Head(declarations)), Tail(declarations))

\* what traverse(node, scope) does at one node, before it descends
VisitCondition(st, node) ==
    Bind(IF node.type = "VariableDeclaration"
         THEN TrackDeclarations(st.scope, node.declarations) ELSE st.scope, LAMBDA scope :
    Bind(IF node.type = "IfStatement" /\ node.test # Null
         THEN evaluateConditionExpression(node.test, scope) ELSE EvaluatedNull, LAMBDA condition :
        [scope |-> scope,
         unmodelled |-> st.unmodelled \/ condition.unmodelled,
         evaluatedConditions |->
             IF condition.null THEN st.evaluatedConditions
             ELSE Append(st.evaluatedConditions,
                         [start |-> node.test.start, end |-> node.test.end,
                          evaluatedValue |-> condition.value])]))

RECURSIVE VisitConditions(_, _, _, _)
\* VisitCondition over nodes[lo..hi] in order, an eighth of them at a time so
\* that the evaluation stays shallow
VisitConditions(st, nodes, lo, hi) ==
    CASE lo > hi -> st
      [] lo = hi -> VisitCondition(st, nodes[lo])
      [] OTHER ->
          LET q == (hi - lo + 8) \div 8
              s1 == VisitConditions(st, nodes, lo, Min(hi, lo + q - 1))
              s2 == VisitConditions(s1, nodes, lo + q, Min(hi, lo + 2 * q - 1))
              s3 == VisitConditions(s2, nodes, lo + 2 * q, Min(hi, lo + 3 * q - 1))
              s4 == VisitConditions(s3, nodes, lo + 3 * q, Min(hi, lo + 4 * q - 1))
              s5 == VisitConditions(s4, nodes, lo + 4 * q, Min(hi, lo + 5 * q - 1))
              s6 == VisitConditions(s5, nodes, lo + 5 * q, Min(hi, lo + 6 * q - 1))
              s7 == VisitConditions(s6, nodes, lo + 6 * q, Min(hi, lo + 7 * q - 1))
              s8 == VisitConditions(s7, nodes, lo + 7 * q, Min(hi, lo + 8 * q - 1))
          IN  CASE Len(<<s1, s2, s3, s4, s5, s6, s7>>) = 7 -> s8

\* the traversal of evaluateConstantConditions: the final scope and the list
\* evaluatedConditions, in the order the conditions were pushed; unmodelled
\* tells whether the model left the value of a condition open
ConditionTraversal(ast) ==
    LET nodes == PreOrder(ast)
    IN  VisitConditions([scope |-> EmptyScope, unmodelled |-> FALSE, evaluatedConditions |-> <<>>],
                        nodes, 1, Len(nodes))

\* Boolean.prototype.toString
BooleanToString(b) == IF b THEN K_true ELSE K_false

\* the replacements of the conditions cs
ConditionReplacementsOf(cs) ==
    [i \in 1..Len(cs) |-> Replacement(cs[i].start, cs[i].end, BooleanToString(cs[i].evaluatedValue))]

\* what stands for a text the model does not compute
Unmodelled == <<"unmodelled">>

\* lines 483-527: the text with the conditions the traversal st recorded replaced
ConditionsApplied(st, content) ==
    IF st.unmodelled THEN Unmodelled
    ELSE ApplyReplacements(content, ConditionReplacementsOf(st.evaluatedConditions))

evaluateConstantConditions(ast, content) ==
    Bind(ConditionTraversal(ast), LAMBDA st : ConditionsApplied(st, content))

(***************************************************************************)
(* deobfuscateArrayControlFlow(ast, originalContent)                       *)
(***************************************************************************)
\* an element of a modelled array: a number, undefined, or an empty slot
ElNumber(n) == [t |-> "number", n |-> n]
ElUndefined == [t |-> "undefined", n |-> Zero(FALSE)]
ElHole == [t |-> "hole", n |-> Zero(FALSE)]

\* array[index], index >= 0
ArrayGet(array, index) ==
    IF index < Len(array) /\ array[index + 1].t = "number" THEN array[index + 1] ELSE ElUndefined

\* array[index] = v, index >= 0: a write past the end lengthens the array
ArraySet(array, index, v) ==
    IF index < Len(array) THEN [array EXCEPT ![index + 1] = v]
    ELSE array \o [k \in 1..(index - Len(array)) |-> ElHole] \o <<v>>

\* the array as it is
NoSwap(array, index1, index2) == array

\* const temp = a[i]; a[i] = a[j]; a[j] = temp;
SwapElements(array, index1, index2) ==
    LET temp == ArrayGet(array, index1)
    IN  ArraySet(ArraySet(array, index1, ArrayGet(array, index2)), index2, temp)

ArrayBinding(value) == [type |-> "array", value |-> value]
SwapFunctionMarker == [type |-> "swap_function", value |-> <<>>]
EmptyFlowScope == [x \in {} |-> SwapFunctionMarker]

isArraySwapFunction(statements) ==
    IF Len(statements) < 3 THEN FALSE
    ELSE LET hasTemp ==
                 \E i \in 1..Len(statements) :
                     /\ statements[i].type = "VariableDeclaration"
                     /\ \E d \in 1..Len(statements[i].declarations) :
                            /\ statements[i].declarations[d].init # Null
                            /\ statements[i].declarations[d].init.type = "MemberExpression"
             assignments ==
                 SelectSeq(statements, LAMBDA stmt :
                     /\ stmt.type = "ExpressionStatement"
                     /\ stmt.expression.type = "AssignmentExpression"
                     /\ stmt.expression.left.type = "MemberExpression")
         IN  hasTemp /\ Len(assignments) >= 2

\* getConstantValue(node, scope): no binding of the scope has type 'constant'
Constant(n) == [null |-> FALSE, value |-> n]
ConstantNull == [null |-> TRUE, value |-> Zero(FALSE)]
getConstantValue(node, scope) ==
    IF node = Null THEN ConstantNull
    ELSE IF node.type = "NumericLiteral" THEN Constant(node.value)
    ELSE ConstantNull

RECURSIVE findSwitchInBlock(_)
findSwitchInBlock(node) ==
    IF node.type = "SwitchStatement" THEN node
    ELSE IF node.type = "BlockStatement" THEN
        LET hits == {i \in 1..Len(node.body) : findSwitchInBlock(node.body[i]) # Null}
        IN  IF hits = {} THEN Null
            ELSE findSwitchInBlock(node.body[CHOOSE i \in hits : \A j \in hits : i <= j])
    ELSE Null

\* String(value) of an array element, as join and a template literal give it
ElementText(el) == IF el.t = "number" THEN NumberToString(el.n) ELSE <<>>

\* String.prototype.trim
Trim(s) == DropTrailing(DropLeading(s, SpaceChar), SpaceChar)

T_LoopReplaced ==
    <<"/", "/", " ", "O", "r", "i", "g", "i", "n", "a", "l", " ", "f", "o", "r", "-", "o", "f",
      " ", "l", "o", "o", "p", " ", "r", "e", "p", "l", "a", "c", "e", "d", " ", "w", "i", "t",
      "h", " ", "d", "e", "o", "b", "f", "u", "s", "c", "a", "t", "e", "d", " ", "e", "x", "e",
      "c", "u", "t", "i", "o", "n", " ", "o", "r", "d", "e", "r", "\n", " ", " ", " ", " ", " ",
      " ", " ", " ">>
T_OrderHead ==
    <<"/", "/", " ", "D", "e", "o", "b", "f", "u", "s", "c", "a", "t", "e", "d", " ", "s", "w",
      "i", "t", "c", "h", " ", "-", " ", "e", "x", "e", "c", "u", "t", "i", "o", "n", " ", "o",
      "r", "d", "e", "r", ":", " ", "[">>
T_OrderTail ==
    <<"]", "\n">>
T_Step ==
    <<"/", "/", " ", "S", "t", "e", "p", " ">>
T_Case ==
    <<":", " ", "C", "a", "s", "e", " ">>
T_GeneratedFrom ==
    <<"/", "/", " ", "G", "e", "n", "e", "r", "a", "t", "e", "d", " ", "f", "r", "o", "m", " ">>
T_FunctionHead ==
    <<"\n", "f", "u", "n", "c", "t", "i", "o", "n", " ">>
T_FunctionOpen ==
    <<"(", ")", " ", "{", "\n", " ", " ", " ", " ">>
T_FunctionClose ==
    <<"\n", "}", "\n", "\n", "m", "o", "d", "u", "l", "e", ".", "e", "x", "p", "o", "r", "t", "s",
      " ", "=", " ", "{", " ">>
T_ExportsClose ==
    <<" ", "}", ";", "\n">>
T_RequireHead ==
    <<"c", "o", "n", "s", "t", " ", "{", " ">>
T_RequireMid ==
    <<" ", "}", " ", "=", " ", "r", "e", "q", "u", "i", "r", "e", "(", "'", ".", "/">>
T_RequireTail ==
    <<"'", ")", ";">>
T_JsExt ==
    <<".", "j", "s">>

\* caseMap.get(value): the last case whose test is a numeric literal of that value
CaseWithValue(cases, el) ==
    LET hits == {i \in 1..Len(cases) :
                    /\ cases[i].test # Null
                    /\ cases[i].test.type = "NumericLiteral"
                    /\ el.t = "number"
                    /\ cases[i].test.value = el.n}
    IN  IF hits = {} THEN Null ELSE cases[CHOOSE i \in hits : \A j \in hits : i >= j]

\* the text of a statement, a break at the end of a case included
KeepBreak(statements, i, originalContent) ==
    Trim(Substring(originalContent, statements[i].start, statements[i].end)) \o <<"\n">>

\* the text reorderSwitchCases adds for one statement of a case
StatementText(statements, i, originalContent) ==
    IF statements[i].type = "BreakStatement" /\ i = Len(statements) THEN <<>>
    ELSE IF statements[i].start # 0 /\ statements[i].end # 0
        THEN Trim(Substring(originalContent, statements[i].start, statements[i].end)) \o <<"\n">>
    ELSE <<>>

\* the text reorderSwitchCases adds for the element at position index (from 1)
StepText(cases, arrayOrder, index, originalContent) ==
    LET caseNode == CaseWithValue(cases, arrayOrder[index]) IN
    IF caseNode = Null THEN <<>>
    ELSE T_Step \o NatChars(index) \o T_Case \o ElementText(arrayOrder[index]) \o <<"\n">>
         \o Flatten([i \in 1..Len(caseNode.consequent) |->
                        StatementText(caseNode.consequent, i, originalContent)])
         \o (IF index < Len(arrayOrder) THEN <<"\n">> ELSE <<>>)

reorderSwitchCasesOf(switchNode, arrayOrder, originalContent) ==
    T_OrderHead \o Join([i \in 1..Len(arrayOrder) |-> ElementText(arrayOrder[i])], <<",", " ">>)
    \o T_OrderTail
    \o Flatten([index \in 1..Len(arrayOrder) |->
                   StepText(switchNode.cases, arrayOrder, index, originalContent)])

\* the operation op applied to the arguments a
Native(op, a) ==
    CASE op = "ParseAssign" -> ParseAssignOf(a[1], a[2])
      [] op = "ParseStmt" -> ParseStmtOf(a[1], a[2], a[3])
      [] op = "Tokenize" -> TokenizeOf(a[1])
      [] op = "Parse" -> ParseOf(a[1])
      [] op = "evaluateConditionExpression" -> evaluateConditionExpressionOf(a[1], a[2])
      [] op = "reorderSwitchCases" -> reorderSwitchCasesOf(a[1], a[2], a[3])
      [] op = "Evaluate" -> EvaluateOf(a[1])
      [] op = "JsEval" -> JsEvalOf(a[1])
      [] op = "Add" -> AddOf(a[1], a[2])
      [] op = "Multiply" -> MultiplyOf(a[1], a[2])
      [] op = "Divide" -> DivideOf(a[1], a[2])
      [] op = "Remainder" -> RemainderOf(a[1], a[2])
      [] op = "Log" -> LogOf(a[1])
      [] op = "NumberToString" -> NumberToStringOf(a[1])
      [] op = "StringToNumber" -> StringToNumberOf(a[1])
      [] op = "Sqrt" -> SqrtOf(a[1])
      [] op = "Order" -> OrderOf(a[1], a[2])
      [] op = "Floor" -> FloorOf(a[1])
      [] op = "Ceil" -> CeilOf(a[1])
      [] op = "Trunc" -> TruncOf(a[1])
      [] op = "RoundHalfUp" -> RoundHalfUpOf(a[1])
      [] op = "FromDecimal" -> FromDecimalOf(a[1], a[2], a[3])
      [] op = "BigPow" -> BigPowOf(a[1], a[2])
      [] op = "LiteralValue" -> LiteralValueOf(a[1])

\* declarations.forEach in the control-flow traversal: arrays of numeric literals
TrackArray(scope, declaration) ==
    IF /\ declaration.init # Null
       /\ NameOf(declaration.id) # Undefined
       /\ declaration.init.type = "ArrayExpression"
       /\ \A i \in 1..Len(declaration.init.elements) :
              declaration.init.elements[i].type = "NumericLiteral"
    THEN [x \in DOMAIN scope \cup {declaration.id.name} |->
             IF x = declaration.id.name
             THEN ArrayBinding([i \in 1..Len(declaration.init.elements) |->
                                   ElNumber(declaration.init.elements[i].value)])
             ELSE scope[x]]
    ELSE scope

RECURSIVE TrackArrays(_, _)
TrackArrays(scope, declarations) ==
    IF declarations = <<>> THEN scope
    ELSE TrackArrays(TrackArray(scope, Head(declarations)), Tail(declarations))

\* the function declarations the traversal marks as swap functions
TrackSwapFunction(scope, node) ==
    IF /\ node.type = "FunctionDeclaration"
       /\ NameOf(node.id) # Undefined
       /\ Len(node.params) = 3
       /\ isArraySwapFunction(node.body.body)
    THEN [x \in DOMAIN scope \cup {node.id.name} |->
             IF x = node.id.name THEN SwapFunctionMarker ELSE scope[x]]
    ELSE scope

\* the greatest index of an array the model writes at
MaxIndex == 16
\* whether the Number is an index the model reads and writes the array at:
\* a whole number up to MaxIndex
IsIndex(x) ==
    /\ x.k = "finite" /\ IsInteger(x) /\ ~(x.neg /\ ~IsZero(x))
    /\ x.e + BigBitLen(x.m) <= 15
    /\ BigToNat(Whole(x)) <= MaxIndex
IndexOf(x) == BigToNat(Whole(x))

\* whether the node is a call of a swap function that exchanges two elements
\* of a tracked array
IsTrackedSwap(scope, node) ==
    /\ node.type = "CallExpression"
    /\ NameOf(node.callee) # Undefined
    /\ node.callee.name \in DOMAIN scope
    /\ scope[node.callee.name].type = "swap_function"
    /\ Len(node.arguments) = 3
    /\ NameOf(node.arguments[1]) # Undefined
    /\ ~getConstantValue(node.arguments[2], scope).null
    /\ ~getConstantValue(node.arguments[3], scope).null
    /\ node.arguments[1].name \in DOMAIN scope
    /\ scope[node.arguments[1].name].type = "array"

\* whether the call exchanges the elements at indices the model holds
SwapModelled(scope, node) ==
    /\ IsIndex(getConstantValue(node.arguments[2], scope).value)
    /\ IsIndex(getConstantValue(node.arguments[3], scope).value)

\* a call of a swap function: the two elements of the tracked array are exchanged
TrackSwapCall(scope, node) ==
    IF IsTrackedSwap(scope, node) /\ SwapModelled(scope, node)
    THEN [scope EXCEPT ![node.arguments[1].name] =
             ArrayBinding(SwapElements(scope[node.arguments[1].name].value,
                                       IndexOf(getConstantValue(node.arguments[2], scope).value),
                                       IndexOf(getConstantValue(node.arguments[3], scope).value)))]
    ELSE scope

\* the replacement the traversal pushes at a for-of loop, or none
LoopReplacements(scope, node, originalContent) ==
    IF /\ node.type = "ForOfStatement"
       /\ NameOf(node.right) # Undefined
       /\ node.right.name \in DOMAIN scope
       /\ scope[node.right.name].type = "array"
       /\ findSwitchInBlock(node.body) # Null
    THEN <<Replacement(node.start, node.end,
                       T_LoopReplaced \o reorderSwitchCases(findSwitchInBlock(node.body),
                                                            scope[node.right.name].value,
                                                            originalContent))>>
    ELSE <<>>

\* what traverse(node, scope) does at one node, before it descends
VisitFlow(st, node, originalContent) ==
    LET s1 == IF node.type = "VariableDeclaration" THEN TrackArrays(st.scope, node.declarations)
              ELSE st.scope
        s2 == TrackSwapFunction(s1, node)
        s3 == TrackSwapCall(s2, node)
    IN  [scope |-> s3,
         unmodelled |-> st.unmodelled \/ (IsTrackedSwap(s2, node) /\ ~SwapModelled(s2, node)),
         replacements |-> st.replacements \o LoopReplacements(s3, node, originalContent)]

RECURSIVE VisitFlows(_, _, _, _, _)
\* VisitFlow over nodes[lo..hi] in order, an eighth of them at a time so that
\* the evaluation stays shallow
VisitFlows(st, nodes, lo, hi, originalContent) ==
    CASE lo > hi -> st
      [] lo = hi -> VisitFlow(st, nodes[lo], originalContent)
      [] OTHER ->
          LET q == (hi - lo + 8) \div 8
              s1 == VisitFlows(st, nodes, lo, Min(hi, lo + q - 1), originalContent)
              s2 == VisitFlows(s1, nodes, lo + q, Min(hi, lo + 2 * q - 1), originalContent)
              s3 == VisitFlows(s2, nodes, lo + 2 * q, Min(hi, lo + 3 * q - 1), originalContent)
              s4 == VisitFlows(s3, nodes, lo + 3 * q, Min(hi, lo + 4 * q - 1), originalContent)
              s5 == VisitFlows(s4, nodes, lo + 4 * q, Min(hi, lo + 5 * q - 1), originalContent)
              s6 == VisitFlows(s5, nodes, lo + 5 * q, Min(hi, lo + 6 * q - 1), originalContent)
              s7 == VisitFlows(s6, nodes, lo + 6 * q, Min(hi, lo + 7 * q - 1), originalContent)
              s8 == VisitFlows(s7, nodes, lo + 7 * q, Min(hi, lo + 8 * q - 1), originalContent)
          IN  CASE Len(<<s1, s2, s3, s4, s5, s6, s7>>) = 7 -> s8

\* the traversal of deobfuscateArrayControlFlow: the final scope and the list
\* replacements; unmodelled tells whether a swap was at an index the model
\* does not hold
FlowTraversal(ast, originalContent) ==
    LET nodes == PreOrder(ast)
    IN  VisitFlows([scope |-> EmptyFlowScope, unmodelled |-> FALSE, replacements |-> <<>>],
                   nodes, 1, Len(nodes), originalContent)

\* the text with the replacements the traversal st recorded applied
FlowsApplied(st, originalContent) ==
    IF st.unmodelled THEN Unmodelled ELSE ApplyReplacements(originalContent, st.replacements)

deobfuscateArrayControlFlow(ast, originalContent) ==
    Bind(FlowTraversal(ast, originalContent), LAMBDA st : FlowsApplied(st, originalContent))

(***************************************************************************)
(* The script (lines 5-39 and 537-687), one action per step.               *)
(***************************************************************************)
T_BlankLine == <<"\n", "\n">>
T_Newline == <<"\n">>
T_Invoke == <<"(", ")">>
T_Modified == <<"_", "m", "o", "d", "i", "f", "i", "e", "d">>
K_InputPath == <<"g", "a", "m", "e", ".", "j", "s">>

\* the text written to the artifact of one call (lines 630-636)
ArtifactContent(chunkPath, methodName, originalCode) ==
    T_GeneratedFrom \o chunkPath \o T_FunctionHead \o methodName \o T_FunctionOpen
    \o originalCode \o T_FunctionClose \o methodName \o T_ExportsClose

\* what the body of systemRegisterCalls.forEach does with one call, given the
\* text gameJsContent holds at that time
Skipped == [skip |-> TRUE]
processCall(call, content, directory) ==
    IF Len(call.arguments) < 1 THEN Skipped
    ELSE IF call.arguments[1].type # "StringLiteral" THEN Skipped
    ELSE Bind(extractFileName(call.arguments[1].value), LAMBDA fileName :
         IF fileName = NoName THEN Skipped
         ELSE Bind(sanitizeFileName(fileName), LAMBDA sanitizedFileName :
              Bind(createMethodName(sanitizedFileName), LAMBDA methodName :
              Bind(PathParseName(sanitizedFileName) \o T_JsExt, LAMBDA jsFileName :
                  [skip |-> FALSE,
                   newFileContent |->
                       ArtifactContent(call.arguments[1].value, methodName,
                                       extractOriginalCode(content, call.start, call.end)),
                   createdFile |-> [fileName |-> jsFileName,
                                    filePath |-> PathJoin(directory, jsFileName),
                                    methodName |-> methodName, originalCall |-> call],
                   methodReplacement |->
                       Replacement(call.start, call.end, methodName \o T_Invoke)]))))

\* `const { ${file.methodName} } = require('./${file.fileName}');`
RequireStatement(file) ==
    T_RequireHead \o file.methodName \o T_RequireMid \o file.fileName \o T_RequireTail

requireStatements(files) ==
    Join([i \in 1..Len(files) |-> RequireStatement(files[i])], T_Newline)

\* `${baseName}_modified${extension}` for the input file's name
modifiedFileName(fileName) ==
    PathParseName(fileName) \o T_Modified \o PathParseExt(fileName)

\* one use of AST offsets on a text: which step made it, the text the offsets
\* were applied to, the text the AST had been parsed from, and the spans
Use(by, text, parsedFrom, spans) ==
    [by |-> by, text |-> text, parsedFrom |-> parsedFrom, spans |-> spans]

Spans(rs) == [i \in 1..Len(rs) |-> [start |-> rs[i].start, end |-> rs[i].end]]

\* the uses so far, with the one a rewrite pass makes when it has replacements
UsedBy(uses, by, text, parsedFrom, rs) ==
    IF rs = <<>> THEN uses ELSE Append(uses, Use(by, text, parsedFrom, Spans(rs)))

VARIABLES
    pc,                        \* the step the run is at
    inputFilePath,             \* process.argv[2], Undefined when absent
    inputFile,                 \* the file at that path: [exists, content]
    gameJsContent,
    ast,
    systemRegisterCalls,
    originalGameJsContent,
    constantEvaluatedContent,
    arrayDeobfuscatedContent,
    index,                     \* the next call systemRegisterCalls.forEach visits
    createdFiles,
    methodReplacements,
    modifiedGameJs,
    written,                   \* the fs.writeFileSync calls so far: [filePath, content]
    used,                      \* the uses of AST offsets so far
    content,                   \* a pass on its own: the snapshot it is given
    nodes,                     \* the nodes of its AST in visiting order
    visited,                   \* how many of them traverse has visited
    scope,
    evaluatedConditions,
    replacements,
    modifiedContent

\* lines 19-20
workingDirectory == PathDirname(inputFilePath)
inputFileName == PathBasename(inputFilePath)
\* lines 683-686
modifiedFilePath == PathJoin(workingDirectory, modifiedFileName(inputFileName))

scriptVars ==
    <<inputFilePath, inputFile, gameJsContent, ast, systemRegisterCalls, originalGameJsContent,
      constantEvaluatedContent, arrayDeobfuscatedContent, index, createdFiles,
      methodReplacements, modifiedGameJs, written, used>>
passVars == <<content, nodes, visited, scope, evaluatedConditions, replacements, modifiedContent>>
vars == <<pc, scriptVars, passVars>>

NoText == <<>>
ScriptIdle ==
    /\ inputFilePath = Undefined
    /\ inputFile = [exists |-> FALSE, content |-> NoText]
    /\ gameJsContent = NoText
    /\ ast = Null
    /\ systemRegisterCalls = <<>>
    /\ originalGameJsContent = NoText
    /\ constantEvaluatedContent = NoText
    /\ arrayDeobfuscatedContent = NoText
    /\ index = 1
    /\ createdFiles = <<>>
    /\ methodReplacements = <<>>
    /\ modifiedGameJs = NoText
    /\ written = <<>>
    /\ used = <<>>
PassIdle ==
    /\ content = NoText
    /\ nodes = <<>>
    /\ visited = 0
    /\ scope = EmptyScope
    /\ evaluatedConditions = <<>>
    /\ replacements = <<>>
    /\ modifiedContent = NoText

\* the statements the input programs of the script are made of
InputStatements ==
    << <<"i", "f", "(", "2", "+", "2", ">", "3", ")", "{", "}">>,
       <<"v", "a", "r", " ", "o", "=", "[", "1", ",", "0", "]", ";", "f", "o", "r", "(", "v", "a", "r", " ", "i", " ", "o", "f", " ", "o", ")", "{", "s", "w", "i", "t", "c", "h", "(", "i", ")", "{", "c", "a", "s", "e", " ", "0", ":", "f", "(", ")", ";", "b", "r", "e", "a", "k", ";", "c", "a", "s", "e", " ", "1", ":", "g", "(", ")", ";", "}", "}">>,
       <<"S", "y", "s", "t", "e", "m", ".", "r", "e", "g", "i", "s", "t", "e", "r", "(", "\"", "a", ".", "j", "s", "\"", ",", "[", "]", ",", "f", "u", "n", "c", "t", "i", "o", "n", "(", ")", "{", "}", ")", ";">>,
       <<"S", "y", "s", "t", "e", "m", ".", "r", "e", "g", "i", "s", "t", "e", "r", "(", "\"", "c", "h", "u", "n", "k", "s", ":", "/", "/", "/", "_", "v", "i", "r", "t", "u", "a", "l", "/", "b", ".", "t", "s", "\"", ",", "[", "]", ",", "f", "u", "n", "c", "t", "i", "o", "n", "(", ")", "{", "i", "f", "(", "1", "<", "2", ")", "{", "}", "}", ")", ";">>,
       <<"S", "y", "s", "t", "e", "m", ".", "r", "e", "g", "i", "s", "t", "e", "r", "(", "\"", "c", ".", "j", "s", "\"", ",", "[", "]", ",", "f", "u", "n", "c", "t", "i", "o", "n", "(", ")", "{", "S", "y", "s", "t", "e", "m", ".", "r", "e", "g", "i", "s", "t", "e", "r", "(", "\"", "d", ".", "j", "s", "\"", ",", "[", "]", ",", "f", "u", "n", "c", "t", "i", "o", "n", "(", ")", "{", "}", ")", ";", "}", ")", ";">>,
       <<"S", "y", "s", "t", "e", "m", ".", "r", "e", "g", "i", "s", "t", "e", "r", "(", "x", ",", "[", "]", ",", "f", ")", ";">>,
       <<"S", "y", "s", "t", "e", "m", ".", "r", "e", "g", "i", "s", "t", "e", "r", "(", ")", ";">>,
       <<"S", "y", "s", "t", "e", "m", ".", "r", "e", "g", "i", "s", "t", "e", "r", "(", "\"", ":", "\"", ",", "[", "]", ",", "f", ")", ";">>,
       <<"S", "y", "s", "t", "e", "m", ".", "r", "e", "g", "i", "s", "t", "e", "r", "(", "\"", "a", ".", "t", "s", "\"", ",", "[", "]", ",", "f", "u", "n", "c", "t", "i", "o", "n", "(", ")", "{", "}", ")", ";">>,
       <<"v", "a", "r", " ", "p", "=", "[", "0", "]", ";", "f", "o", "r", "(", "v", "a", "r", " ", "i", " ", "o", "f", " ", "p", ")", "{", "s", "w", "i", "t", "c", "h", "(", "i", ")", "{", "c", "a", "s", "e", " ", "0", ":", "f", "o", "r", "(", "v", "a", "r", " ", "j", " ", "o", "f", " ", "p", ")", "{", "s", "w", "i", "t", "c", "h", "(", "j", ")", "{", "c", "a", "s", "e", " ", "0", ":", "h", "(", ")", ";", "}", "}", "}", "}">>,
       <<"i", "f", "(", "3", "<", "1", ")", "{", "}">>,
       <<"i", "f", "(">>,
       <<"v", "a", "r", " ", "q", "=", "[", "0", ",", "1", "]", ";", "f", "o", "r", "(", "v", "a", "r", " ", "i", " ", "o", "f", " ", "q", ")", "{", "s", "w", "i", "t", "c", "h", "(", "i", ")", "{", "c", "a", "s", "e", " ", "1", ":", "i", "f", "(", "x", ">", "3", ")", "{", "}", "b", "r", "e", "a", "k", ";", "c", "a", "s", "e", " ", "0", ":", "v", "a", "r", " ", "x", "=", "5", ";", "b", "r", "e", "a", "k", ";", "}", "}">>,
       <<"S", "y", "s", "t", "e", "m", ".", "r", "e", "g", "i", "s", "t", "e", "r", "(", "\"", "A", ".", "j", "s", "\"", ",", "[", "]", ",", "f", "u", "n", "c", "t", "i", "o", "n", "(", ")", "{", "}", ")", ";">>,
       <<"S", "y", "s", "t", "e", "m", ".", "r", "e", "g", "i", "s", "t", "e", "r", "(", "\"", "a", "-", "b", ".", "j", "s", "\"", ",", "[", "]", ",", "f", ")", ";", "S", "y", "s", "t", "e", "m", ".", "r", "e", "g", "i", "s", "t", "e", "r", "(", "\"", "a", "_", "b", ".", "j", "s", "\"", ",", "[", "]", ",", "f", ")", ";">> >>

\* the most statements in one input program
MaxStatements == 2

\* the statements picked, in the order of the list
Pick(statements, picked) ==
    Flatten([i \in 1..Len(statements) |-> IF i \in picked THEN statements[i] ELSE <<>>])

RECURSIVE Picks(_, _)
\* the sets of at most `most` of the numbers 1..n
Picks(n, most) ==
    IF n = 0 \/ most = 0 THEN {{}}
    ELSE Picks(n - 1, most) \cup {picked \cup {n} : picked \in Picks(n - 1, most - 1)}

Programs(statements, most) ==
    {Pick(statements, picked) : picked \in Picks(Len(statements), most)}

\* the paths of the input file: in the current directory and in another one
InputPaths == {K_InputPath, <<".", "/", "d", "/", "g", "a", "m", "e", ".", "j", "s">>}

\* the runs: no path argument, a path to no file, a path to an input program
Inputs ==
    {[path |-> Undefined, file |-> [exists |-> FALSE, content |-> NoText]],
     [path |-> K_InputPath, file |-> [exists |-> FALSE, content |-> NoText]]}
    \cup {[path |-> path, file |-> [exists |-> TRUE, content |-> p]] :
             path \in InputPaths, p \in Programs(InputStatements, MaxStatements)}

Init ==
    /\ pc = "start"
    /\ \E input \in Inputs :
           /\ inputFilePath = input.path
           /\ inputFile = input.file
    /\ gameJsContent = NoText
    /\ ast = Null
    /\ systemRegisterCalls = <<>>
    /\ originalGameJsContent = NoText
    /\ constantEvaluatedContent = NoText
    /\ arrayDeobfuscatedContent = NoText
    /\ index = 1
    /\ createdFiles = <<>>
    /\ methodReplacements = <<>>
    /\ modifiedGameJs = NoText
    /\ written = <<>>
    /\ used = <<>>
    /\ PassIdle

\* lines 6-17: the path argument is required and must name an existing file
CheckArguments ==
    /\ pc = "start"
    /\ pc' = IF inputFilePath = Undefined \/ ~inputFile.exists THEN "exit" ELSE "read"
    /\ UNCHANGED <<scriptVars, passVars>>

\* lines 25-39: read the file and parse it; a syntax error ends the run.  At
\* "unmodelled" the model follows the run no further.
ReadAndParse ==
    /\ pc = "read"
    /\ gameJsContent' = inputFile.content
    /\ \E p \in {Parse(inputFile.content)} :
           /\ ast' = p.ast
           /\ pc' = IF p.unmodelled THEN "unmodelled" ELSE IF p.ok THEN "find" ELSE "exit"
    /\ UNCHANGED <<inputFilePath, inputFile, systemRegisterCalls, originalGameJsContent,
                   constantEvaluatedContent, arrayDeobfuscatedContent, index, createdFiles,
                   methodReplacements, modifiedGameJs, written, used, passVars>>

\* lines 538-542
FindCalls ==
    /\ pc = "find"
    /\ systemRegisterCalls' = findSystemRegisterCalls(ast)
    /\ originalGameJsContent' = gameJsContent
    /\ pc' = "constant"
    /\ UNCHANGED <<inputFilePath, inputFile, gameJsContent, ast, constantEvaluatedContent,
                   arrayDeobfuscatedContent, index, createdFiles, methodReplacements,
                   modifiedGameJs, written, used, passVars>>

\* line 546
ConstantPass ==
    /\ pc = "constant"
    /\ \E st \in {ConditionTraversal(ast)} :
           /\ constantEvaluatedContent' = ConditionsApplied(st, gameJsContent)
           /\ used' = UsedBy(used, "evaluateConstantConditions", gameJsContent,
                             originalGameJsContent,
                             ConditionReplacementsOf(st.evaluatedConditions))
    /\ pc' = IF constantEvaluatedContent' = Unmodelled THEN "unmodelled" ELSE "array"
    /\ UNCHANGED <<inputFilePath, inputFile, gameJsContent, ast, systemRegisterCalls,
                   originalGameJsContent, arrayDeobfuscatedContent, index, createdFiles,
                   methodReplacements, modifiedGameJs, written, passVars>>

\* line 551
ArrayPass ==
    /\ pc = "array"
    /\ \E st \in {FlowTraversal(ast, originalGameJsContent)} :
           /\ arrayDeobfuscatedContent' = FlowsApplied(st, originalGameJsContent)
           /\ used' = UsedBy(used, "deobfuscateArrayControlFlow", originalGameJsContent,
                             originalGameJsContent, st.replacements)
    /\ pc' = IF arrayDeobfuscatedContent' = Unmodelled THEN "unmodelled" ELSE "combine"
    /\ UNCHANGED <<inputFilePath, inputFile, gameJsContent, ast, systemRegisterCalls,
                   originalGameJsContent, constantEvaluatedContent, index, createdFiles,
                   methodReplacements, modifiedGameJs, written, passVars>>

\* lines 559-565: the array pass's output is parsed and the constant pass is run
\* on it; a syntax error leaves the array pass's output as it is
ReapplyTraversal(newAst) ==
    IF newAst.ok THEN ConditionTraversal(newAst.ast)
    ELSE [scope |-> EmptyScope, unmodelled |-> FALSE, evaluatedConditions |-> <<>>]

Reapplied(newAst, st, text) ==
    IF newAst.unmodelled THEN Unmodelled
    ELSE IF newAst.ok THEN ConditionsApplied(st, text)
    ELSE text

reapplyConstantConditions(newAst, text) ==
    Bind(ReapplyTraversal(newAst), LAMBDA st : Reapplied(newAst, st, text))

ReapplyUsedBy(uses, newAst, st, text) ==
    IF newAst.ok
    THEN UsedBy(uses, "evaluateConstantConditions", text, text,
                ConditionReplacementsOf(st.evaluatedConditions))
    ELSE uses

\* the passes combined, with a syntax error in the array pass's output ending the run
CombineFatal ==
    /\ pc = "combine"
    /\ gameJsContent' = IF arrayDeobfuscatedContent # originalGameJsContent
                        THEN arrayDeobfuscatedContent ELSE constantEvaluatedContent
    /\ pc' = IF /\ constantEvaluatedContent # gameJsContent
                /\ arrayDeobfuscatedContent # originalGameJsContent
                /\ ~Parse(arrayDeobfuscatedContent).ok
             THEN "exit" ELSE "calls"
    /\ UNCHANGED <<inputFilePath, inputFile, ast, systemRegisterCalls, originalGameJsContent,
                   constantEvaluatedContent, arrayDeobfuscatedContent, index, createdFiles,
                   methodReplacements, modifiedGameJs, written, used, passVars>>

\* lines 555-577: when both passes changed the text, the constant pass is applied
\* again to the array pass's output
Combine ==
    /\ pc = "combine"
    /\ IF constantEvaluatedContent # gameJsContent
          /\ arrayDeobfuscatedContent # originalGameJsContent
       THEN \E newAst \in {Parse(arrayDeobfuscatedContent)} :
            \E st \in {ReapplyTraversal(newAst)} :
                /\ gameJsContent' = Reapplied(newAst, st, arrayDeobfuscatedContent)
                /\ used' = ReapplyUsedBy(used, newAst, st, arrayDeobfuscatedContent)
       ELSE /\ gameJsContent' = IF constantEvaluatedContent # gameJsContent
                                THEN constantEvaluatedContent
                                ELSE IF arrayDeobfuscatedContent # originalGameJsContent
                                THEN arrayDeobfuscatedContent
                                ELSE gameJsContent
            /\ used' = used
    /\ pc' = IF gameJsContent' = Unmodelled THEN "unmodelled" ELSE "calls"
    /\ UNCHANGED <<inputFilePath, inputFile, ast, systemRegisterCalls, originalGameJsContent,
                   constantEvaluatedContent, arrayDeobfuscatedContent, index, createdFiles,
                   methodReplacements, modifiedGameJs, written, passVars>>

\* the artifact is written and the file pushed, without the replacement
RecordFileOnly(outcome) ==
    IF outcome.skip
    THEN UNCHANGED <<createdFiles, methodReplacements, written, used>>
    ELSE /\ written' = Append(written, [filePath |-> outcome.createdFile.filePath,
                                        content |-> outcome.newFileContent])
         /\ createdFiles' = Append(createdFiles, outcome.createdFile)
         /\ UNCHANGED <<methodReplacements, used>>

\* lines 642-655: the artifact is written, and the file and the replacement are
\* pushed; nothing happens for a skipped call
Record(outcome) ==
    IF outcome.skip
    THEN UNCHANGED <<createdFiles, methodReplacements, written, used>>
    ELSE /\ written' = Append(written, [filePath |-> outcome.createdFile.filePath,
                                        content |-> outcome.newFileContent])
         /\ createdFiles' = Append(createdFiles, outcome.createdFile)
         /\ methodReplacements' = Append(methodReplacements, outcome.methodReplacement)
         /\ used' = UsedBy(used, "extractOriginalCode", gameJsContent, originalGameJsContent,
                           <<outcome.methodReplacement>>)

\* lines 583-658: the body of systemRegisterCalls.forEach for the next call
ProcessCall ==
    /\ pc = "calls"
    /\ index <= Len(systemRegisterCalls)
    /\ Record(processCall(systemRegisterCalls[index], gameJsContent, workingDirectory))
    /\ index' = index + 1
    /\ UNCHANGED <<pc, inputFilePath, inputFile, gameJsContent, ast, systemRegisterCalls,
                   originalGameJsContent, constantEvaluatedContent, arrayDeobfuscatedContent,
                   modifiedGameJs, passVars>>

\* lines 661-671
ApplyMethodReplacements ==
    /\ pc = "calls"
    /\ index > Len(systemRegisterCalls)
    /\ methodReplacements' = SortByStartDesc(methodReplacements)
    /\ modifiedGameJs' = ApplyReplacements(gameJsContent, methodReplacements)
    /\ used' = UsedBy(used, "methodReplacements", gameJsContent, originalGameJsContent,
                      methodReplacements)
    /\ pc' = "write"
    /\ UNCHANGED <<inputFilePath, inputFile, gameJsContent, ast, systemRegisterCalls,
                   originalGameJsContent, constantEvaluatedContent, arrayDeobfuscatedContent,
                   index, createdFiles, written, passVars>>

\* the text of the main output file (lines 674-680)
MainFileContent(requires, text) ==
    IF requires # NoText THEN requires \o T_BlankLine \o text ELSE text

\* lines 674-687
WriteMain ==
    /\ pc = "write"
    /\ modifiedGameJs' = MainFileContent(requireStatements(createdFiles), modifiedGameJs)
    /\ written' = Append(written, [filePath |-> modifiedFilePath,
                                   content |-> modifiedGameJs'])
    /\ pc' = "done"
    /\ UNCHANGED <<inputFilePath, inputFile, gameJsContent, ast, systemRegisterCalls,
                   originalGameJsContent, constantEvaluatedContent, arrayDeobfuscatedContent,
                   index, createdFiles, methodReplacements, used, passVars>>

Next ==
    \/ CheckArguments
    \/ ReadAndParse
    \/ FindCalls
    \/ ConstantPass
    \/ ArrayPass
    \/ Combine
    \/ ProcessCall
    \/ ApplyMethodReplacements
    \/ WriteMain

Spec == Init /\ [][Next]_vars

(***************************************************************************)
(* The Rewrite Engine on its own: the sort and the splice loop that lines  *)
(* 216-226, 326-335 and 660-671 share, on any text and any replacements    *)
(* whose spans are spans of nodes (0 <= start < end <= length).            *)
(***************************************************************************)
\* the longest text, and the most replacements, the engine is run on
MaxLen == 3
MaxReplacements == 2

Texts(n) == UNION {[1..k -> {"a", "b"}] : k \in 0..n}
ReplacementTexts == {<<>>, <<"x", "y">>}
ReplacementsOn(text) ==
    {Replacement(s, e, x) : <<s, e, x>> \in
        {y \in (0..Len(text)) \X (0..Len(text)) \X ReplacementTexts : y[1] < y[2]}}
ReplacementLists(text, n) == UNION {[1..k -> ReplacementsOn(text)] : k \in 0..n}

InitRewrite ==
    /\ pc = "sort"
    /\ content \in Texts(MaxLen)
    /\ replacements \in ReplacementLists(content, MaxReplacements)
    /\ modifiedContent = content
    /\ visited = 0
    /\ nodes = <<>>
    /\ scope = EmptyScope
    /\ evaluatedConditions = <<>>
    /\ ScriptIdle

\* replacements.sort((a, b) => b.start - a.start)
SortReplacements ==
    /\ pc = "sort"
    /\ replacements' = SortByStartDesc(replacements)
    /\ pc' = "splice"
    /\ UNCHANGED <<scriptVars, content, nodes, visited, scope, evaluatedConditions,
                   modifiedContent>>

\* one turn of replacements.forEach
SpliceNext ==
    /\ pc = "splice"
    /\ visited < Len(replacements)
    /\ modifiedContent' = Splice(modifiedContent, replacements[visited + 1])
    /\ visited' = visited + 1
    /\ UNCHANGED <<pc, scriptVars, content, nodes, scope, evaluatedConditions, replacements>>

NextRewrite ==
    \/ SortReplacements
    \/ SpliceNext

SpecRewrite == InitRewrite /\ [][NextRewrite]_vars

\* the spans of the replacements do not overlap
PairwiseDisjoint(rs) ==
    \A i, j \in 1..Len(rs) :
        i < j => (rs[i].end <= rs[j].start \/ rs[j].end <= rs[i].start)

RECURSIVE SubstituteFrom(_, _, _)
\* the text from offset p on with every span replaced at once: the replacement
\* where a span starts, the text's own character outside the spans
SubstituteFrom(text, rs, p) ==
    IF p >= Len(text) THEN <<>>
    ELSE IF \E k \in 1..Len(rs) : rs[k].start = p
        THEN Bind(rs[CHOOSE k \in 1..Len(rs) : rs[k].start = p], LAMBDA r :
                 r.replacement \o SubstituteFrom(text, rs, r.end))
    ELSE <<text[p + 1]>> \o SubstituteFrom(text, rs, p + 1)

\* C4: for replacements with pairwise-disjoint spans, the splices in descending
\* order of start give the text in which all the spans are substituted at once
\* against the snapshot, and while replacements are pending the text up to the
\* end of the next one is still the snapshot's
RewriteIsSimultaneous ==
    (pc = "splice" /\ PairwiseDisjoint(replacements)) =>
        /\ visited = Len(replacements) =>
               modifiedContent = SubstituteFrom(content, replacements, 0)
        /\ visited < Len(replacements) =>
               Substring(modifiedContent, 0, replacements[visited + 1].end)
                   = Substring(content, 0, replacements[visited + 1].end)

\* two disjoint replacements that change the length have been spliced in
RewriteWitness ==
    /\ pc = "splice"
    /\ Len(replacements) = 2
    /\ visited = 2
    /\ PairwiseDisjoint(replacements)
    /\ replacements[1].replacement = <<"x", "y">>
    /\ replacements[2].replacement = <<>>
    /\ replacements[2].end < replacements[1].start
    /\ modifiedContent # content

(***************************************************************************)
(* The claims about the script.                                            *)
(***************************************************************************)
\* C1: the body captured in the artifact of every processed registration call is
\* the substring [call.start, call.end) of the original input text
CapturedBodyIsOriginal ==
    \A k \in 1..Len(createdFiles) :
        written[k].content =
            ArtifactContent(createdFiles[k].originalCall.arguments[1].value,
                            createdFiles[k].methodName,
                            Substring(originalGameJsContent,
                                      createdFiles[k].originalCall.start,
                                      createdFiles[k].originalCall.end))

\* C2: every use of AST offsets is on exactly the text that AST was parsed from
OffsetsOnParsedText ==
    \A k \in 1..Len(used) : used[k].text = used[k].parsedFrom

\* a registration call with a string-literal first argument a name derives from
Derivable(call) ==
    /\ Len(call.arguments) >= 1
    /\ call.arguments[1].type = "StringLiteral"
    /\ extractFileName(call.arguments[1].value) # NoName

SanitizedName(call) == sanitizeFileName(extractFileName(call.arguments[1].value))

\* the offsets of text at which one of the symbols is invoked: `<symbol>()`
InvocationSites(text, files) ==
    {i \in 1..Len(text) :
        \E k \in 1..Len(files) :
            /\ i + Len(files[k].methodName) + 1 <= Len(text)
            /\ SubSeq(text, i, i + Len(files[k].methodName) + 1) = files[k].methodName \o T_Invoke}

\* the artifact and the symbol the script derives for a call
ExpectedFile(call) ==
    [fileName |-> PathParseName(SanitizedName(call)) \o T_JsExt,
     methodName |-> createMethodName(SanitizedName(call))]

\* C3: for N registration calls with string-literal first arguments and N distinct
\* derivable sanitized names there are N artifacts, the main file has N invocation
\* sites, and it starts with the N module-load statements in discovery order
OneArtifactPerCall ==
    (/\ pc = "done"
     /\ \A k \in 1..Len(systemRegisterCalls) : Derivable(systemRegisterCalls[k])
     /\ \A j, k \in 1..Len(systemRegisterCalls) :
            j # k => SanitizedName(systemRegisterCalls[j]) # SanitizedName(systemRegisterCalls[k]))
    => /\ Len(createdFiles) = Len(systemRegisterCalls)
       /\ Cardinality({written[k].filePath : k \in 1..Len(createdFiles)})
              = Len(systemRegisterCalls)
       /\ Cardinality(InvocationSites(modifiedGameJs, createdFiles)) = Len(systemRegisterCalls)
       /\ systemRegisterCalls # <<>> =>
              StartsWith(modifiedGameJs,
                         Join([k \in 1..Len(systemRegisterCalls) |->
                                  RequireStatement(ExpectedFile(systemRegisterCalls[k]))],
                              T_Newline) \o T_BlankLine)

\* C5: every set of replacements the script applies to one text has
\* pairwise-disjoint spans
AppliedSpansDisjoint ==
    \A k \in 1..Len(used) : PairwiseDisjoint(used[k].spans)

(***************************************************************************)
(* The constant-condition pass on its own, one visit of traverse at a      *)
(* step, on programs made of declarations and if statements.               *)
(***************************************************************************)
\* the statements the programs of the pass are made of: declarations first
ConditionStatements ==
    << <<"v", "a", "r", " ", "x", "=", "5", ";">>,
       <<"v", "a", "r", " ", "a", " ", "=", " ", "M", "a", "t", "h", ".", "l", "o", "g", ";">>,
       <<"v", "a", "r", " ", "s", "=", "\"", "k", "\"", ";">>,
       <<"v", "a", "r", " ", "m", "=", "\"", "M", "a", "t", "h", ".", "l", "o", "g", "\"", ";">>,
       <<"v", "a", "r", " ", "b", "=", "M", "a", "t", "h", ".", "n", "o", "p", "e", ";">>,
       <<"v", "a", "r", " ", "z", "=", "f", "(", ")", ";">>,
       <<"i", "f", " ", "(", "2", " ", "+", " ", "2", " ", ">", " ", "3", ")", " ", "{", "}">>,
       <<"i", "f", " ", "(", "x", " ", ">", " ", "3", ")", " ", "{", "}">>,
       <<"i", "f", " ", "(", "a", "(", "1", "0", "0", ")", " ", ">", " ", "a", "(", "1", ")", ")", " ", "{", "}">>,
       <<"i", "f", "(", "x", "-", "9", ")", "{", "}">>,
       <<"i", "f", "(", "0", ")", "{", "}">>,
       <<"i", "f", "(", "s", ")", "{", "}">>,
       <<"i", "f", "(", "-", "(", "-", "x", ")", ")", "{", "}">>,
       <<"i", "f", "(", "m", "(", "1", ")", ">", "0", ")", "{", "}">>,
       <<"i", "f", "(", "b", "(", "2", ")", ">", "1", ")", "{", "}">>,
       <<"i", "f", "(", "z", ">", "1", ")", "{", "}">>,
       <<"i", "f", "(", "f", "(", "f", "u", "n", "c", "t", "i", "o", "n", "(", ")", "{", "i", "f", "(", "1", "<", "2", ")", "{", "}", "}", ")", ")", "{", "}">>,
       <<"i", "f", "(", "t", "r", "u", "e", ")", "{", "}">>,
       <<"i", "f", "(", "1", "&", "&", "2", ")", "{", "}">>,
       <<"i", "f", "(", "!", "x", ")", "{", "}">>,
       <<"i", "f", "(", "a", ")", "{", "}">>,
       <<"v", "a", "r", " ", "w", "=", "\"", "M", "a", "t", "h", ".", "a", "b", "s", "(", "1", ")", "+", "f", "(", ")", "\"", ";">>,
       <<"i", "f", "(", "w", ")", "{", "}">>,
       <<"i", "f", "(", "'", "1", "\"", "=", "=", "=", "\"", "2", "'", ")", "{", "}">>,
       <<"i", "f", "(", "\"", "a", "\\", "\"", "+", "f", "(", ")", "+", "\\", "\"", "b", "\"", ")", "{", "}">>,
       <<"v", "a", "r", " ", "y", "=", "5", ";", "v", "a", "r", " ", "y", "=", "f", "(", ")", ";">>,
       <<"i", "f", "(", "y", ">", "3", ")", "{", "}">>,
       <<"i", "f", "(", "x", ")", "{", "}">>,
       <<"i", "f", "(", "b", ")", "{", "}">>,
       <<"i", "f", "(", "a", "(", "2", ")", ")", "{", "}">>,
       <<"i", "f", "(", "a", "(", "-", "1", ")", ")", "{", "}">>,
       <<"i", "f", "(", "x", ")", "{", "}", "i", "f", "(", "x", "-", "9", ")", "{", "}", "i", "f", "(", "0", ")", "{", "}", "i", "f", "(", "\"", "k", "\"", ")", "{", "}", "i", "f", "(", "-", "(", "-", "x", ")", ")", "{", "}">> >>

InitConditions ==
    /\ pc = "traverse"
    /\ content \in Programs(ConditionStatements, MaxStatements)
    /\ nodes = PreOrder(Parse(content).ast)
    /\ visited = 0
    /\ scope = EmptyScope
    /\ evaluatedConditions = <<>>
    /\ replacements = <<>>
    /\ modifiedContent = content
    /\ ScriptIdle

\* lines 165-200: one call of traverse, up to where it descends
TraverseNode ==
    /\ pc = "traverse"
    /\ visited < Len(nodes)
    /\ \E st \in {VisitCondition([scope |-> scope, unmodelled |-> FALSE,
                                   evaluatedConditions |-> evaluatedConditions],
                                  nodes[visited + 1])} :
           /\ scope' = st.scope
           /\ evaluatedConditions' = st.evaluatedConditions
           /\ pc' = IF st.unmodelled THEN "unmodelled" ELSE pc
    /\ visited' = visited + 1
    /\ UNCHANGED <<scriptVars, content, nodes, replacements, modifiedContent>>

\* lines 216-228: the conditions recorded are sorted and spliced into the text
ApplyConditions ==
    /\ pc = "traverse"
    /\ visited = Len(nodes)
    /\ replacements' =
           SortByStartDesc([i \in 1..Len(evaluatedConditions) |->
               Replacement(evaluatedConditions[i].start, evaluatedConditions[i].end,
                           BooleanToString(evaluatedConditions[i].evaluatedValue))])
    /\ modifiedContent' = SpliceAll(content, replacements')
    /\ pc' = "done"
    /\ UNCHANGED <<scriptVars, content, nodes, visited, scope, evaluatedConditions>>

NextConditions ==
    \/ TraverseNode
    \/ ApplyConditions

SpecConditions == InitConditions /\ [][NextConditions]_vars

\* how a declarator binds its name: by a literal initializer, by a member
\* access off Math, or not at all
BindingKind(declaration) ==
    IF declaration.init = Null \/ NameOf(declaration.id) = Undefined THEN "none"
    ELSE IF declaration.init.type \in {"NumericLiteral", "StringLiteral"} THEN "Literal"
    ELSE IF declaration.init.type = "MemberExpression"
            /\ NameOf(declaration.init.object) = K_Math THEN "MathRef"
    ELSE "none"

\* the declarators among the first v nodes visited that bind the name, each as
\* <<node, declarator>>
Binders(ns, v, name) ==
    {p \in UNION {{<<k, i>> : i \in 1..(IF ns[k].type = "VariableDeclaration"
                                          THEN Len(ns[k].declarations) ELSE 0)} : k \in 1..v} :
        /\ NameOf(ns[p[1]].declarations[p[2]].id) = name
        /\ BindingKind(ns[p[1]].declarations[p[2]]) # "none"}

\* what the name is bound as once the first v nodes are visited: the kind of
\* the last declarator that binds it
BoundAs(ns, v, name) ==
    IF Binders(ns, v, name) = {} THEN "none"
    ELSE Bind(CHOOSE p \in Binders(ns, v, name) :
                  \A q \in Binders(ns, v, name) :
                      q[1] < p[1] \/ (q[1] = p[1] /\ q[2] <= p[2]),
              LAMBDA p : BindingKind(ns[p[1]].declarations[p[2]]))

RECURSIVE ResolvableTest(_, _, _)
\* the test is built only from literals, identifiers bound as Literal or
\* MathRef, binary and unary operators, and calls to MathRef-bound names
ResolvableTest(node, ns, v) ==
    IF node = Null THEN FALSE
    ELSE CASE node.type \in {"NumericLiteral", "StringLiteral"} -> TRUE
           [] node.type = "Identifier" -> BoundAs(ns, v, node.name) \in {"Literal", "MathRef"}
           [] node.type = "BinaryExpression" ->
                 ResolvableTest(node.left, ns, v) /\ ResolvableTest(node.right, ns, v)
           [] node.type = "UnaryExpression" -> ResolvableTest(node.argument, ns, v)
           [] node.type = "CallExpression" ->
                 /\ node.callee.type = "Identifier"
                 /\ BoundAs(ns, v, node.callee.name) = "MathRef"
                 /\ \A i \in 1..Len(node.arguments) : ResolvableTest(node.arguments[i], ns, v)
           [] OTHER -> FALSE

RECURSIVE ShiftAt(_, _)
\* how far offset p of the snapshot has moved in the output: the growth of
\* every recorded condition that ends at or before p
ShiftAt(cs, p) ==
    IF cs = <<>> THEN 0
    ELSE (IF Head(cs).end <= p
          THEN Len(BooleanToString(Head(cs).evaluatedValue)) - (Head(cs).end - Head(cs).start)
          ELSE 0) + ShiftAt(Tail(cs), p)

\* the text the output has where the snapshot has the node
OutputText(node) ==
    Substring(modifiedContent, node.start + ShiftAt(evaluatedConditions, node.start),
              node.end + ShiftAt(evaluatedConditions, node.end))

\* C6: once the pass is done, an if statement whose test is not built only from
\* literals, bound identifiers, binary and unary operators and calls to
\* MathRef-bound names has no condition recorded for its test, and the output
\* has the test's text unchanged
UnresolvedTestUntouched ==
    pc = "done" =>
        \A k \in 1..Len(nodes) :
            (nodes[k].type = "IfStatement" /\ ~ResolvableTest(nodes[k].test, nodes, k)) =>
                /\ \A i \in 1..Len(evaluatedConditions) :
                       ~(evaluatedConditions[i].start = nodes[k].test.start
                           /\ evaluatedConditions[i].end = nodes[k].test.end)
                /\ OutputText(nodes[k].test)
                       = Substring(content, nodes[k].test.start, nodes[k].test.end)

\* what the claim says an evaluation result does to the list of conditions
ResultRule(result, test) ==
    CASE result.t = "boolean" ->
             evaluatedConditions' =
                 Append(evaluatedConditions,
                        [start |-> test.start, end |-> test.end, evaluatedValue |-> result.b])
      [] result.t = "number" ->
             evaluatedConditions' =
                 Append(evaluatedConditions,
                        [start |-> test.start, end |-> test.end,
                         evaluatedValue |-> IsPositive(result.n)])
      [] OTHER -> evaluatedConditions' = evaluatedConditions

\* the recorded conditions as replacements by `true` and `false`
ConditionTexts(cs) ==
    [i \in 1..Len(cs) |->
        Replacement(cs[i].start, cs[i].end,
                    IF cs[i].evaluatedValue THEN <<"t", "r", "u", "e">> ELSE <<"f", "a", "l", "s", "e">>)]

\* C7: when the test of the if statement visited is fully built, a boolean
\* result is recorded as it is, a numeric result as whether it is strictly
\* greater than zero, and any other result or a failed evaluation records
\* nothing; the output has `true` or `false` in place of each recorded test:
\* `true` for a(100) > a(1), x = 5 and a(2) with a bound to Math.log, `false`
\* for x - 9 and a(-1), and the test itself for the undefined Math.nope
ResultDecidesReplacement ==
    /\ [][(/\ pc = "traverse"
           /\ visited < Len(nodes)
           /\ nodes[visited + 1].type = "IfStatement"
           /\ ~buildExpression(nodes[visited + 1].test, scope).null)
          => ResultRule(JsEval(buildExpression(nodes[visited + 1].test, scope).s),
                        nodes[visited + 1].test)]_vars
    /\ [](pc = "done" =>
            /\ modifiedContent = SubstituteFrom(content, ConditionTexts(evaluatedConditions), 0)
            /\ content = <<"v", "a", "r", " ", "a", " ", "=", " ", "M", "a", "t", "h", ".", "l", "o", "g", ";", "i", "f", " ", "(", "a", "(", "1", "0", "0", ")", " ", ">", " ", "a", "(", "1", ")", ")", " ", "{", "}">>
                   => modifiedContent = <<"v", "a", "r", " ", "a", " ", "=", " ", "M", "a", "t", "h", ".", "l", "o", "g", ";", "i", "f", " ", "(", "t", "r", "u", "e", ")", " ", "{", "}">>
            /\ content = <<"v", "a", "r", " ", "x", "=", "5", ";", "i", "f", "(", "x", ")", "{", "}">>
                   => modifiedContent = <<"v", "a", "r", " ", "x", "=", "5", ";", "i", "f", "(", "t", "r", "u", "e", ")", "{", "}">>
            /\ content = <<"v", "a", "r", " ", "x", "=", "5", ";", "i", "f", "(", "x", "-", "9", ")", "{", "}">>
                   => modifiedContent = <<"v", "a", "r", " ", "x", "=", "5", ";", "i", "f", "(", "f", "a", "l", "s", "e", ")", "{", "}">>
            /\ content = <<"v", "a", "r", " ", "a", " ", "=", " ", "M", "a", "t", "h", ".", "l", "o", "g", ";", "i", "f", "(", "a", "(", "2", ")", ")", "{", "}">>
                   => modifiedContent = <<"v", "a", "r", " ", "a", " ", "=", " ", "M", "a", "t", "h", ".", "l", "o", "g", ";", "i", "f", "(", "t", "r", "u", "e", ")", "{", "}">>
            /\ content = <<"v", "a", "r", " ", "a", " ", "=", " ", "M", "a", "t", "h", ".", "l", "o", "g", ";", "i", "f", "(", "a", "(", "-", "1", ")", ")", "{", "}">>
                   => modifiedContent = <<"v", "a", "r", " ", "a", " ", "=", " ", "M", "a", "t", "h", ".", "l", "o", "g", ";", "i", "f", "(", "f", "a", "l", "s", "e", ")", "{", "}">>
            /\ content = <<"v", "a", "r", " ", "b", "=", "M", "a", "t", "h", ".", "n", "o", "p", "e", ";", "i", "f", "(", "b", ")", "{", "}">>
                   => modifiedContent = <<"v", "a", "r", " ", "b", "=", "M", "a", "t", "h", ".", "n", "o", "p", "e", ";", "i", "f", "(", "b", ")", "{", "}">>)

\* results above, below and at zero have been recorded as `true`, `false` and
\* `false`, and a string result and a failed evaluation have recorded nothing
ResultWitness ==
    /\ pc = "done"
    /\ content = <<"v", "a", "r", " ", "x", "=", "5", ";", "i", "f", "(", "x", ")", "{", "}", "i", "f", "(", "x", "-", "9", ")", "{", "}", "i", "f", "(", "0", ")", "{", "}", "i", "f", "(", "\"", "k", "\"", ")", "{", "}", "i", "f", "(", "-", "(", "-", "x", ")", ")", "{", "}">>
    /\ Len(evaluatedConditions) = 3
    /\ evaluatedConditions[1].evaluatedValue
    /\ ~evaluatedConditions[2].evaluatedValue
    /\ ~evaluatedConditions[3].evaluatedValue
    /\ modifiedContent = <<"v", "a", "r", " ", "x", "=", "5", ";", "i", "f", "(", "t", "r", "u", "e", ")", "{", "}", "i", "f", "(", "f", "a", "l", "s", "e", ")", "{", "}", "i", "f", "(", "f", "a", "l", "s", "e", ")", "{", "}", "i", "f", "(", "\"", "k", "\"", ")", "{", "}", "i", "f", "(", "-", "(", "-", "x", ")", ")", "{", "}">>

(***************************************************************************)
(* The control-flow pass on its own, one visit of traverse at a step, on   *)
(* programs that declare an array, a swap function and a function of       *)
(* another shape, call them, and loop over the array.                      *)
(***************************************************************************)
FlowDeclarations ==
    <<"v", "a", "r", " ", "o", "=", "[", "2", ",", "0", ",", "1", ",", "3", "]", ";", "f", "u", "n", "c", "t", "i", "o", "n", " ", "s", "(", "a", ",", "b", ",", "c", ")", "{", "v", "a", "r", " ", "d", "=", "a", "[", "b", "]", ";", "a", "[", "b", "]", "=", "a", "[", "c", "]", ";", "a", "[", "c", "]", "=", "d", ";", "}", "f", "u", "n", "c", "t", "i", "o", "n", " ", "n", "(", "a", ",", "b", ",", "c", ")", "{", "a", "[", "b", "]", "=", "a", "[", "c", "]", ";", "}">>

\* the statements between the declarations and the loop
FlowStatements ==
    << <<"s", "(", "o", ",", "0", ",", "3", ")", ";">>,
       <<"s", "(", "o", ",", "0", ",", "1", ")", ";">>,
       <<"s", "(", "o", ",", "3", ",", "0", ")", ";">>,
       <<"s", "(", "o", ",", "x", ",", "1", ")", ";">>,
       <<"n", "(", "o", ",", "0", ",", "1", ")", ";">>,
       <<"s", "(", "o", ",", "1", ",", "5", ")", ";">>,
       <<"s", "(", "o", ",", "2", ",", "2", ")", ";">>,
       <<"s", "(", "q", ",", "0", ",", "1", ")", ";">>,
       <<"s", "(", "o", ",", "0", ")", ";">>,
       <<"v", "a", "r", " ", "o", "=", "[", "1", ",", "0", "]", ";">> >>

\* the loops
FlowLoops ==
    { <<"f", "o", "r", "(", "v", "a", "r", " ", "i", " ", "o", "f", " ", "o", ")", "{", "s", "w", "i", "t", "c", "h", "(", "x", ")", "{", "c", "a", "s", "e", " ", "0", ":", "f", "(", ")", ";", "b", "r", "e", "a", "k", ";", "c", "a", "s", "e", " ", "1", ":", "g", "(", ")", ";", "}", "}">>,
      <<"f", "o", "r", "(", "v", "a", "r", " ", "i", " ", "o", "f", " ", "o", ")", "{", "s", "w", "i", "t", "c", "h", "(", "i", ")", "{", "c", "a", "s", "e", " ", "0", ":", "f", "(", ")", ";", "b", "r", "e", "a", "k", ";", "c", "a", "s", "e", " ", "1", ":", "g", "(", ")", ";", "b", "r", "e", "a", "k", ";", "c", "a", "s", "e", " ", "2", ":", "h", "(", ")", ";", "k", "(", ")", ";", "b", "r", "e", "a", "k", ";", "c", "a", "s", "e", " ", "3", ":", "e", "(", ")", ";", "}", "}">>,
      <<"f", "o", "r", "(", "v", "a", "r", " ", "i", " ", "o", "f", " ", "o", ")", "{", "s", "w", "i", "t", "c", "h", "(", "i", ")", "{", "c", "a", "s", "e", " ", "0", ":", "f", "(", ")", ";", "b", "r", "e", "a", "k", ";", "d", "e", "f", "a", "u", "l", "t", ":", "g", "(", ")", ";", "b", "r", "e", "a", "k", ";", "c", "a", "s", "e", " ", "3", ":", "e", "(", ")", ";", "b", "r", "e", "a", "k", ";", "b", "r", "e", "a", "k", ";", "}", "}">>,
      <<"f", "o", "r", "(", "v", "a", "r", " ", "i", " ", "o", "f", " ", "o", ")", "{", "{", "s", "w", "i", "t", "c", "h", "(", "i", ")", "{", "c", "a", "s", "e", " ", "1", ":", "g", "(", ")", ";", "}", "}", "}">>,
      <<"f", "o", "r", "(", "v", "a", "r", " ", "i", " ", "o", "f", " ", "q", ")", "{", "s", "w", "i", "t", "c", "h", "(", "i", ")", "{", "c", "a", "s", "e", " ", "0", ":", "f", "(", ")", ";", "}", "}">>,
      <<"f", "o", "r", "(", "v", "a", "r", " ", "i", " ", "o", "f", " ", "o", ")", "{", "f", "(", ")", ";", "}">>,
      <<"f", "o", "r", "(", "v", "a", "r", " ", "i", " ", "o", "f", " ", "o", ")", "{", "i", "f", "(", "x", ")", "{", "s", "w", "i", "t", "c", "h", "(", "i", ")", "{", "c", "a", "s", "e", " ", "0", ":", "f", "(", ")", ";", "}", "}", "}">> }

FlowPrograms ==
    {FlowDeclarations \o p \o loop : p \in Programs(FlowStatements, MaxStatements), loop \in FlowLoops}

InitControlFlow ==
    /\ pc = "traverse"
    /\ content \in FlowPrograms
    /\ nodes = PreOrder(Parse(content).ast)
    /\ visited = 0
    /\ scope = EmptyFlowScope
    /\ evaluatedConditions = <<>>
    /\ replacements = <<>>
    /\ modifiedContent = content
    /\ ScriptIdle

\* lines 236-310: one call of traverse, up to where it descends
TraverseFlowNode ==
    /\ pc = "traverse"
    /\ visited < Len(nodes)
    /\ \E st \in {VisitFlow([scope |-> scope, unmodelled |-> FALSE, replacements |-> replacements],
                             nodes[visited + 1], content)} :
           /\ scope' = st.scope
           /\ replacements' = st.replacements
           /\ pc' = IF st.unmodelled THEN "unmodelled" ELSE pc
    /\ visited' = visited + 1
    /\ UNCHANGED <<scriptVars, content, nodes, evaluatedConditions, modifiedContent>>

\* lines 326-337: the replacements are sorted and spliced into the text
ApplyLoopReplacements ==
    /\ pc = "traverse"
    /\ visited = Len(nodes)
    /\ replacements' = SortByStartDesc(replacements)
    /\ modifiedContent' = SpliceAll(content, replacements')
    /\ pc' = "done"
    /\ UNCHANGED <<scriptVars, content, nodes, visited, scope, evaluatedConditions>>

NextControlFlow ==
    \/ TraverseFlowNode
    \/ ApplyLoopReplacements

SpecControlFlow == InitControlFlow /\ [][NextControlFlow]_vars

\* the positions of the line ends of a text, and its lines
NewlinesOf(t) == {i \in 1..Len(t) : t[i] = "\n"}
NthNewline(t, k) ==
    CHOOSE i \in NewlinesOf(t) : Cardinality({j \in NewlinesOf(t) : j < i}) = k - 1
LinesOf(t) ==
    [k \in 1..(Cardinality(NewlinesOf(t)) + 1) |->
        SubSeq(t, IF k = 1 THEN 1 ELSE NthNewline(t, k - 1) + 1,
                  IF k = Cardinality(NewlinesOf(t)) + 1 THEN Len(t) ELSE NthNewline(t, k) - 1)]
IsCodeLine(line) == line # <<>> /\ ~StartsWith(line, <<"/", "/">>)
\* the lines of a text that are neither empty nor comments, without the
\* spaces around them
CodeLines(t) == SelectSeq([k \in 1..Len(LinesOf(t)) |-> Trim(LinesOf(t)[k])], IsCodeLine)

\* the cases of the switch whose test is the literal v
LiteralCases(cases, v) ==
    {i \in 1..Len(cases) :
        /\ cases[i].test # Null
        /\ cases[i].test.type = "NumericLiteral"
        /\ cases[i].test.value = v}
\* the statements of a case but for one break at their end
KeptStatements(statements) ==
    IF statements # <<>> /\ statements[Len(statements)].type = "BreakStatement"
    THEN SubSeq(statements, 1, Len(statements) - 1) ELSE statements
SourceOf(statements, text) ==
    [i \in 1..Len(statements) |-> Substring(text, statements[i].start, statements[i].end)]
LastOf(S) == CHOOSE i \in S : \A j \in S : j <= i
\* the source of the statements the claim expects, in the order of the array
ExpectedOrder(cases, array, text) ==
    Flatten([p \in 1..Len(array) |->
        IF array[p].t = "number" /\ LiteralCases(cases, array[p].n) # {}
        THEN SourceOf(KeptStatements(cases[LastOf(LiteralCases(cases, array[p].n))].consequent),
                      text)
        ELSE <<>>])

\* the step visits a for-of loop and pushes a replacement for it
LoopReplaced ==
    /\ pc = "traverse"
    /\ visited < Len(nodes)
    /\ nodes[visited + 1].type = "ForOfStatement"
    /\ replacements' # replacements

\* C8: the replacement pushed for a loop spans the loop, and its code is, for
\* each value of the array's sequence in order, the statements of the case
\* with that literal test, verbatim and in their order, without one break at
\* the end; nothing else: no default case, no case whose value is not in the
\* sequence.  With the order [3, 0, 1, 2] the cases 0..3 come out as 3, 0, 1, 2.
ReorderedInArrayOrder ==
    /\ [][LoopReplaced =>
            /\ replacements' = Append(replacements, replacements'[Len(replacements')])
            /\ replacements'[Len(replacements')].start = nodes[visited + 1].start
            /\ replacements'[Len(replacements')].end = nodes[visited + 1].end
            /\ CodeLines(replacements'[Len(replacements')].replacement)
                   = ExpectedOrder(findSwitchInBlock(nodes[visited + 1].body).cases,
                                   scope[nodes[visited + 1].right.name].value, content)]_vars
    /\ [](content = FlowDeclarations \o <<"s", "(", "o", ",", "0", ",", "3", ")", ";", "f", "o", "r", "(", "v", "a", "r", " ", "i", " ", "o", "f", " ", "o", ")", "{", "s", "w", "i", "t", "c", "h", "(", "i", ")", "{", "c", "a", "s", "e", " ", "0", ":", "f", "(", ")", ";", "b", "r", "e", "a", "k", ";", "c", "a", "s", "e", " ", "1", ":", "g", "(", ")", ";", "b", "r", "e", "a", "k", ";", "c", "a", "s", "e", " ", "2", ":", "h", "(", ")", ";", "k", "(", ")", ";", "b", "r", "e", "a", "k", ";", "c", "a", "s", "e", " ", "3", ":", "e", "(", ")", ";", "}", "}">>
            /\ pc = "done"
          => CodeLines(replacements[1].replacement)
                 = << <<"e", "(", ")", ";">>, <<"f", "(", ")", ";">>, <<"g", "(", ")", ";">>, <<"h", "(", ")", ";">>, <<"k", "(", ")", ";">> >>)

\* a loop has been replaced whose switch has a default case, a case that ends
\* in two breaks and no case for two of the values
ReorderedWitness ==
    /\ pc = "done"
    /\ content = FlowDeclarations \o <<"s", "(", "o", ",", "0", ",", "1", ")", ";", "s", "(", "o", ",", "3", ",", "0", ")", ";", "f", "o", "r", "(", "v", "a", "r", " ", "i", " ", "o", "f", " ", "o", ")", "{", "s", "w", "i", "t", "c", "h", "(", "i", ")", "{", "c", "a", "s", "e", " ", "0", ":", "f", "(", ")", ";", "b", "r", "e", "a", "k", ";", "d", "e", "f", "a", "u", "l", "t", ":", "g", "(", ")", ";", "b", "r", "e", "a", "k", ";", "c", "a", "s", "e", " ", "3", ":", "e", "(", ")", ";", "b", "r", "e", "a", "k", ";", "b", "r", "e", "a", "k", ";", "}", "}">>
    /\ Len(replacements) = 1
    /\ CodeLines(replacements[1].replacement) = << <<"e", "(", ")", ";">>, <<"b", "r", "e", "a", "k", ";">>, <<"f", "(", ")", ";">> >>

\* the node is a call of a recognized swap function with three arguments: a
\* tracked array and two constant indices, whole numbers up to MaxIndex
IsSwapCall(node, sc) ==
    /\ node.type = "CallExpression"
    /\ node.callee.type = "Identifier"
    /\ node.callee.name \in DOMAIN sc
    /\ sc[node.callee.name].type = "swap_function"
    /\ Len(node.arguments) = 3
    /\ node.arguments[1].type = "Identifier"
    /\ node.arguments[1].name \in DOMAIN sc
    /\ sc[node.arguments[1].name].type = "array"
    /\ node.arguments[2].type = "NumericLiteral"
    /\ node.arguments[3].type = "NumericLiteral"
    /\ IsIndex(node.arguments[2].value)
    /\ IsIndex(node.arguments[3].value)

\* what a position of the sequence holds, NaN where it holds no number
Holds(array, k) ==
    IF k < Len(array) /\ array[k + 1].t = "number" THEN array[k + 1].n ELSE NaN

\* after is before with what positions i and j hold exchanged
Exchanged(before, after, i, j) ==
    /\ \A k \in 0..(Max(Len(before), Len(after)) + 1) :
           Holds(after, k) = IF k = i THEN Holds(before, j)
                             ELSE IF k = j THEN Holds(before, i)
                             ELSE Holds(before, k)
    /\ (i < Len(before) /\ j < Len(before)) => Len(after) = Len(before)

\* C9: a call of a recognized swap function with a tracked array and constant
\* indices i and j exchanges what positions i and j of the array's sequence
\* hold and leaves every other position and every other binding as it was,
\* call by call in visiting order; [2,0,1,3] after swap(arr,0,3) is [3,0,1,2]
SwapExchanges ==
    /\ [][(pc = "traverse" /\ visited < Len(nodes) /\ IsSwapCall(nodes[visited + 1], scope)) =>
            /\ DOMAIN scope' = DOMAIN scope
            /\ \A x \in DOMAIN scope :
                   IF x = nodes[visited + 1].arguments[1].name
                   THEN /\ scope'[x].type = "array"
                        /\ Exchanged(scope[x].value, scope'[x].value,
                                     IndexOf(nodes[visited + 1].arguments[2].value),
                                     IndexOf(nodes[visited + 1].arguments[3].value))
                   ELSE scope'[x] = scope[x]]_vars
    /\ [](content = FlowDeclarations \o <<"s", "(", "o", ",", "0", ",", "3", ")", ";", "f", "o", "r", "(", "v", "a", "r", " ", "i", " ", "o", "f", " ", "o", ")", "{", "f", "(", ")", ";", "}">> /\ visited = Len(nodes)
          => scope[<<"o">>].value = <<ElNumber(FromNat(3)), ElNumber(FromNat(0)), ElNumber(FromNat(1)), ElNumber(FromNat(2))>>)

\* two swaps that do not commute have been applied in visiting order
SwapWitness ==
    /\ pc = "traverse"
    /\ visited = Len(nodes)
    /\ content = FlowDeclarations \o <<"s", "(", "o", ",", "0", ",", "1", ")", ";", "s", "(", "o", ",", "3", ",", "0", ")", ";", "f", "o", "r", "(", "v", "a", "r", " ", "i", " ", "o", "f", " ", "o", ")", "{", "f", "(", ")", ";", "}">>
    /\ scope[<<"o">>].value = <<ElNumber(FromNat(3)), ElNumber(FromNat(2)), ElNumber(FromNat(1)), ElNumber(FromNat(0))>>

\* a call visited so far on the array that leaves its order undetermined: a
\* call of the swap function with an index that is not constant, or a call
\* of a function that is not a swap function
UndeterminedCall(node, sc, name) ==
    /\ node.type = "CallExpression"
    /\ node.callee.type = "Identifier"
    /\ Len(node.arguments) >= 1
    /\ NameOf(node.arguments[1]) = name
    /\ IF node.callee.name \in DOMAIN sc /\ sc[node.callee.name].type = "swap_function"
       THEN \E a \in 2..Len(node.arguments) : node.arguments[a].type # "NumericLiteral"
       ELSE TRUE

\* the step visits a for-of loop over a tracked array whose order is not fully
\* determined
UndeterminedLoop ==
    /\ pc = "traverse"
    /\ visited < Len(nodes)
    /\ nodes[visited + 1].type = "ForOfStatement"
    /\ NameOf(nodes[visited + 1].right) \in DOMAIN scope
    /\ scope[nodes[visited + 1].right.name].type = "array"
    /\ \/ \E c \in 1..visited : UndeterminedCall(nodes[c], scope, nodes[visited + 1].right.name)
       \/ /\ findSwitchInBlock(nodes[visited + 1].body) # Null
          /\ \E p \in 1..Len(scope[nodes[visited + 1].right.name].value) :
                 LiteralCases(findSwitchInBlock(nodes[visited + 1].body).cases,
                              Holds(scope[nodes[visited + 1].right.name].value, p - 1)) = {}

\* C10: a for-of loop over a tracked array whose order is not fully determined
\* gets no replacement
UndeterminedLoopUntouched ==
    [][UndeterminedLoop => replacements' = replacements]_vars

\* the calls among the first n found that the loop processes, in their order
ProcessedCalls(calls, n) == SelectSeq(SubSeq(calls, 1, n), Derivable)

\* C11: after any prefix of the registration calls, the calls with no argument,
\* a first argument that is not a string literal or no derivable name have left
\* nothing, every other call of the prefix has left one written artifact, one
\* entry of the artifact list and one replacement, in discovery order, and the
\* k-th replacement is `<symbol of the k-th artifact>()` over the k-th call
CallsProcessedOrSkipped ==
    pc = "calls" =>
        /\ Len(createdFiles) = Len(ProcessedCalls(systemRegisterCalls, index - 1))
        /\ Len(methodReplacements) = Len(createdFiles)
        /\ Len(written) = Len(createdFiles)
        /\ \A k \in 1..Len(createdFiles) :
               /\ createdFiles[k].originalCall
                      = ProcessedCalls(systemRegisterCalls, index - 1)[k]
               /\ written[k].filePath = createdFiles[k].filePath
               /\ methodReplacements[k] =
                      Replacement(createdFiles[k].originalCall.start,
                                  createdFiles[k].originalCall.end,
                                  createdFiles[k].methodName \o <<"(", ")">>)

\* a call without arguments has been skipped and the call after it processed
SkippedThenProcessed ==
    /\ pc = "calls"
    /\ index = 3
    /\ Len(systemRegisterCalls[1].arguments) = 0
    /\ Len(createdFiles) = 1
    /\ createdFiles[1].originalCall = systemRegisterCalls[2]
    /\ methodReplacements[1].replacement = <<"R", "e", "g", "i", "s", "t", "e", "r", "A", "(", ")">>

(***************************************************************************)
(* The derivation of names on its own (lines 606-640): the file name       *)
(* taken from a path string, sanitized, and turned into the artifact's     *)
(* file name and symbol.  modifiedContent holds fileName and then          *)
(* sanitizedFileName.                                                      *)
(***************************************************************************)
\* the longest path string made of PathChars
MaxPathLen == 3
PathChars == {"a", "B", "1", "-", "_", ".", "/", "%"}
PathExamples ==
    { <<"c", "h", "u", "n", "k", "s", ":", "/", "/", "/", "_", "v", "i", "r", "t", "u", "a", "l", "/", "u", "t", "i", "l", ".", "m", "j", "s", "_", "c", "j", "s", "=", "&", "o", "r", "i", "g", "i", "n", "a", "l", "=", ".", "j", "s">>,
      <<"c", "h", "u", "n", "k", ":", "\\", "\\", "S", "o", "m", "e", "F", "o", "l", "d", "e", "r", "\\", "\\", "F", "i", "l", "e", "N", "a", "m", "e", ".", "t", "s">>,
      <<"c", "h", "u", "n", "k", "s", ":", "/", "/", "/", "_", "v", "i", "r", "t", "u", "a", "l", "/", "C", "o", "m", "p", "o", "n", "e", "n", "t", "C", "u", "r", "s", "e", "E", "f", "f", "e", "c", "t", "i", "v", "e", "R", "o", "g", "u", "e", "S", "k", "i", "l", "l", "L", "i", "s", "t", "%", "2", "0", ".", "t", "s">>,
      <<".", "/", "u", "t", "i", "l", "s", "/", "h", "e", "l", "p", "e", "r", ".", "j", "s">>,
      <<"m", "y", "-", "f", "i", "l", "e", ".", "j", "s">> }
PathStrings == PathExamples \cup UNION {[1..k -> PathChars] : k \in 0..MaxPathLen}

InitNames ==
    /\ pc = "extract"
    /\ content \in PathStrings
    /\ modifiedContent = NoText
    /\ nodes = <<>>
    /\ visited = 0
    /\ scope = EmptyScope
    /\ evaluatedConditions = <<>>
    /\ replacements = <<>>
    /\ ScriptIdle

\* lines 606-611: a path string without a file name is skipped
ExtractName ==
    /\ pc = "extract"
    /\ modifiedContent' = extractFileName(content)
    /\ pc' = IF modifiedContent' = NoName THEN "skipped" ELSE "sanitize"
    /\ UNCHANGED <<scriptVars, content, nodes, visited, scope, evaluatedConditions, replacements>>

\* line 614
SanitizeName ==
    /\ pc = "sanitize"
    /\ modifiedContent' = sanitizeFileName(modifiedContent)
    /\ pc' = "names"
    /\ UNCHANGED <<scriptVars, content, nodes, visited, scope, evaluatedConditions, replacements>>

\* lines 627 and 639-640: the symbol and the artifact's file name
CreateNames ==
    /\ pc = "names"
    /\ createdFiles' = <<[fileName |-> PathParseName(modifiedContent) \o T_JsExt,
                          filePath |-> PathJoin(<<".">>, PathParseName(modifiedContent) \o T_JsExt),
                          methodName |-> createMethodName(modifiedContent),
                          originalCall |-> Null]>>
    /\ pc' = "named"
    /\ UNCHANGED <<inputFilePath, inputFile, gameJsContent, ast, systemRegisterCalls,
                   originalGameJsContent, constantEvaluatedContent, arrayDeobfuscatedContent,
                   index, methodReplacements, modifiedGameJs, written, used, passVars>>

NextNames ==
    \/ ExtractName
    \/ SanitizeName
    \/ CreateNames

SpecNames == InitNames /\ [][NextNames]_vars

\* the artifact's file name without its `.js`
ArtifactBase(file) == SubSeq(file.fileName, 1, Len(file.fileName) - 3)

\* C12: the base of every derived artifact name is made of letters, digits and
\* underscores and starts with a letter or an underscore, and the symbol is
\* `Register` followed by the base with its first character in upper case
NamesAreIdentifiers ==
    pc = "named" =>
        /\ ArtifactBase(createdFiles[1]) # <<>>
        /\ \A i \in 1..Len(ArtifactBase(createdFiles[1])) :
               ArtifactBase(createdFiles[1])[i] \in WordChar
        /\ ArtifactBase(createdFiles[1])[1] \in Letter \cup {"_"}
        /\ createdFiles[1].methodName
               = <<"R", "e", "g", "i", "s", "t", "e", "r">> \o <<ToUpper(ArtifactBase(createdFiles[1])[1])>>
                     \o Tail(ArtifactBase(createdFiles[1]))

\* C13: once the passes are combined, a text the array pass changed has been
\* parsed again and given to the constant pass, so the text the run goes on
\* with is what that second constant pass gives on the array pass's output
ReorderedTextIsReevaluated ==
    pc = "calls" /\ arrayDeobfuscatedContent # originalGameJsContent =>
        gameJsContent = reapplyConstantConditions(Parse(arrayDeobfuscatedContent),
                                                  arrayDeobfuscatedContent)

\* the run's input makes it end at one of the three fatal errors
FatalInput ==
    \/ inputFilePath = Undefined
    \/ ~inputFile.exists
    \/ ~Parse(inputFile.content).ok

\* C14: a run whose path argument is missing, whose input file does not exist or
\* whose input does not parse never writes a file; the run is ended only by the
\* argument checks and the parse of the input, so not by a syntax error in the
\* intermediate text; writes are never undone, and a run that reaches its end
\* has written its main file last
FatalErrorsWriteNothing ==
    /\ [][/\ pc' = "exit" => pc \in {"start", "read"} /\ FatalInput
          /\ Len(written') >= Len(written)
          /\ SubSeq(written', 1, Len(written)) = written]_vars
    /\ [](FatalInput => written = <<>> /\ pc \in {"start", "read", "exit"})
    /\ [](pc = "done" =>
              /\ written # <<>>
              /\ written[Len(written)].filePath = modifiedFilePath)

\* a run ended by a syntax error in its input, with nothing written
EndedByParseError ==
    /\ pc = "exit"
    /\ inputFilePath # Undefined /\ inputFile.exists
    /\ ~Parse(inputFile.content).ok
    /\ written = <<>>

\* a run whose intermediate text did not parse, ended with its main file written
IntermediateFailureStillWrites ==
    /\ pc = "done"
    /\ constantEvaluatedContent # originalGameJsContent
    /\ arrayDeobfuscatedContent # originalGameJsContent
    /\ ~Parse(arrayDeobfuscatedContent).ok
    /\ written # <<>>

\* the tokens of an expression text are numbers, strings, operators,
\* parentheses, commas and `Math.<name>` references
OnlyConstantTokens(toks) ==
    \A i \in 1..Len(toks) :
        /\ toks[i].k \notin {"bad", "unmodelled"}
        /\ toks[i].k = "punct" => toks[i].v \notin {<<"{">>, <<"}">>, <<"[">>, <<"]">>, <<";">>, <<"=">>}
        /\ toks[i].k = "word" =>
               \/ toks[i].v = K_Math /\ IsPunct(toks, i + 1, <<".">>)
               \/ i > 2 /\ IsPunct(toks, i - 1, <<".">>) /\ IsWord(toks, i - 2, K_Math)
        /\ IsPunct(toks, i, <<".">>) => i > 1 /\ IsWord(toks, i - 1, K_Math)

\* the values of the string tokens, in order
StringTokens(toks) ==
    Flatten([i \in 1..Len(toks) |-> IF toks[i].k = "str" THEN <<toks[i].v>> ELSE <<>>])

RECURSIVE StringsOf(_, _, _, _)
\* the strings a test holds as data, in the order the expression is built: its
\* string literals and the values of its identifiers bound by a string literal
StringsOf(node, ns, v, sc) ==
    IF node = Null THEN <<>>
    ELSE CASE node.type = "StringLiteral" -> <<node.value>>
           [] node.type = "Identifier" ->
                 IF BoundAs(ns, v, node.name) = "Literal" /\ ScopeHas(sc, node.name)
                    /\ sc[node.name].t = "string"
                 THEN <<sc[node.name].s>> ELSE <<>>
           [] node.type = "BinaryExpression" ->
                 StringsOf(node.left, ns, v, sc) \o StringsOf(node.right, ns, v, sc)
           [] node.type = "UnaryExpression" -> StringsOf(node.argument, ns, v, sc)
           [] node.type = "CallExpression" ->
                 Flatten([i \in 1..Len(node.arguments) |-> StringsOf(node.arguments[i], ns, v, sc)])
           [] OTHER -> <<>>

\* C15: the expression text built for the test of the if statement visited has
\* only literal tokens, operators, parentheses and `Math.<name>` references, and
\* its string tokens are exactly the strings the test holds as data, so that
\* the content of a string literal never becomes code
ExpressionIsConstant ==
    (/\ pc = "traverse"
     /\ visited < Len(nodes)
     /\ nodes[visited + 1].type = "IfStatement"
     /\ ~buildExpression(nodes[visited + 1].test, scope).null)
    => Bind(Tokenize(buildExpression(nodes[visited + 1].test, scope).s), LAMBDA toks :
           /\ OnlyConstantTokens(toks)
           /\ StringTokens(toks) = StringsOf(nodes[visited + 1].test, nodes, visited, scope))

\* C16: the scope a node is visited with holds only the bindings made on the
\* way down to it, that is by declarations the node lies inside; a binding made
\* while a sibling's subtree was visited is not in it
ScopeIsCopiedPerChild ==
    pc = "traverse" /\ visited < Len(nodes) =>
        \A name \in DOMAIN scope :
            \E p \in Binders(nodes, visited, name) :
                /\ nodes[p[1]].start <= nodes[visited + 1].start
                /\ nodes[visited + 1].end <= nodes[p[1]].end

\* the switch is keyed by the loop's variable
KeyedByLoopVariable(switch, loop) ==
    /\ switch.discriminant.type = "Identifier"
    /\ switch.discriminant.name = NameOf(loop.left.declarations[1].id)

\* the loop runs over a tracked array, and its body is a switch keyed by the
\* loop variable or a block with such a switch among its statements
RecognisedLoop(loop, sc) ==
    /\ NameOf(loop.right) \in DOMAIN sc
    /\ sc[NameOf(loop.right)].type = "array"
    /\ \/ loop.body.type = "SwitchStatement" /\ KeyedByLoopVariable(loop.body, loop)
       \/ /\ loop.body.type = "BlockStatement"
          /\ \E i \in 1..Len(loop.body.body) :
                 /\ loop.body.body[i].type = "SwitchStatement"
                 /\ KeyedByLoopVariable(loop.body.body[i], loop)

\* C17: a replacement is pushed only for a for-of loop over a tracked array
\* whose body is, or has among the statements of its body block, a switch keyed
\* by the loop variable
OnlyRecognisedLoopsReplaced ==
    [][LoopReplaced => RecognisedLoop(nodes[visited + 1], scope)]_vars

\* the declarators of the name among the first v nodes visited, each as
\* <<node, declarator>>, whatever their initializer
Declarators(ns, v, name) ==
    {p \in UNION {{<<k, i>> : i \in 1..(IF ns[k].type = "VariableDeclaration"
                                          THEN Len(ns[k].declarations) ELSE 0)} : k \in 1..v} :
        NameOf(ns[p[1]].declarations[p[2]].id) = name}

\* how the declaration of the name visited last binds it
LastDeclaredAs(ns, v, name) ==
    IF Declarators(ns, v, name) = {} THEN "none"
    ELSE Bind(CHOOSE p \in Declarators(ns, v, name) :
                  \A q \in Declarators(ns, v, name) :
                      q[1] < p[1] \/ (q[1] = p[1] /\ q[2] <= p[2]),
              LAMBDA p : BindingKind(ns[p[1]].declarations[p[2]]))

\* the names a test refers to
IdentifiersOf(test) ==
    {PreOrder(test)[i].name :
        i \in {j \in 1..Len(PreOrder(test)) : PreOrder(test)[j].type = "Identifier"}}

\* C18: a condition is recorded for the test of the if statement visited only
\* if, for every name the test refers to, the declaration of that name visited
\* last has a literal or a Math member as its initializer
LatestDeclarationDecides ==
    [][(/\ pc = "traverse"
        /\ visited < Len(nodes)
        /\ nodes[visited + 1].type = "IfStatement"
        /\ evaluatedConditions' # evaluatedConditions)
       => \A name \in IdentifiersOf(nodes[visited + 1].test) :
              LastDeclaredAs(nodes, visited, name) \in {"Literal", "MathRef"}]_vars

\* C19: in a test that is fully built, every call is through a name bound by a
\* member access off Math, and a name bound by a literal stands for the
\* literal's value, written as JSON.stringify writes it
BindingKindsKept ==
    (/\ pc = "traverse"
     /\ visited < Len(nodes)
     /\ nodes[visited + 1].type = "IfStatement"
     /\ ~buildExpression(nodes[visited + 1].test, scope).null)
    => Bind(PreOrder(nodes[visited + 1].test), LAMBDA ts :
           \A i \in 1..Len(ts) :
               /\ ts[i].type = "CallExpression" =>
                      /\ ts[i].callee.type = "Identifier"
                      /\ BoundAs(nodes, visited, ts[i].callee.name) = "MathRef"
               /\ (ts[i].type = "Identifier" /\ BoundAs(nodes, visited, ts[i].name) = "Literal") =>
                      buildExpression(ts[i], scope) = Built(JSONStringify(scope[ts[i].name])))

\* C20: the boolean recorded for the test of the if statement visited is the
\* truthiness of the value the test evaluates to, so `true` for every number
\* but zero and NaN, negative numbers included
ReplacementIsTruthiness ==
    [][(/\ pc = "traverse"
        /\ visited < Len(nodes)
        /\ nodes[visited + 1].type = "IfStatement"
        /\ evaluatedConditions' # evaluatedConditions)
       => evaluatedConditions'[Len(evaluatedConditions')].evaluatedValue
              = Truthy(JsEval(buildExpression(nodes[visited + 1].test, scope).s))]_vars

\* how many positions of the sequence hold the element
Occurrences(array, el) == Cardinality({k \in 1..Len(array) : array[k] = el})

\* the two sequences have the same length and the same elements, each as often
IsPermutation(before, after) ==
    /\ Len(after) = Len(before)
    /\ \A k \in 1..Len(before) : Occurrences(after, before[k]) = Occurrences(before, before[k])

\* C21: a call of a recognized swap function with constant indices, whatever
\* the indices, leaves the tracked array's sequence a permutation of what it
\* was, and so of the array literal it was initialized from: no element is
\* added or lost
SwapPermutes ==
    [][(pc = "traverse" /\ visited < Len(nodes) /\ IsSwapCall(nodes[visited + 1], scope)) =>
          IsPermutation(scope[nodes[visited + 1].arguments[1].name].value,
                        scope'[nodes[visited + 1].arguments[1].name].value)]_vars

\* C22: two entries of the artifact list with different file names have
\* different symbols, so the require statements of the main file declare no
\* symbol twice for two different files
DistinctFilesDistinctSymbols ==
    \A i, j \in 1..Len(createdFiles) :
        createdFiles[i].fileName # createdFiles[j].fileName
            => createdFiles[i].methodName # createdFiles[j].methodName

====
